---- MODULE Spec2Model ----
(***************************************************************************)
(* The tool-augmented query orchestrator of the RAG chatbot backend:       *)
(* generate_response of the native tool-calling providers (Variant A:      *)
(* AnthropicProvider, AIGenerator) and of the emulated providers           *)
(* (Variant B: OllamaProvider, LocalAIProvider).                           *)
(*                                                                         *)
(* One query is processed at a time.  A query is split into steps at the   *)
(* calls that leave the component: a model call and a tool dispatch are    *)
(* each issued by one step and answered (return or raise) by the next.     *)
(* Python strings are sequences of one-character strings wherever the code *)
(* looks inside them (lower(), "in", re.search).                           *)
(***************************************************************************)
EXTENDS Integers, Sequences, FiniteSets, TLC

(***************************************************************************)
(* Text                                                                    *)
(***************************************************************************)

\* A Python str as the sequence of its characters.
Chars(s) == [i \in 1..Len(s) |-> SubSeq(s, i, i)]

\* Characters back to a str.
Str(cs) ==
    LET F[k \in 0..Len(cs)] == IF k = 0 THEN "" ELSE F[k - 1] \o cs[k]
    IN  F[Len(cs)]

\* str.lower() of one character.
LowerChar(c) ==
    IF \E i \in 1..26 : SubSeq("ABCDEFGHIJKLMNOPQRSTUVWXYZ", i, i) = c
    THEN LET i == CHOOSE i \in 1..26 : SubSeq("ABCDEFGHIJKLMNOPQRSTUVWXYZ", i, i) = c
         IN  SubSeq("abcdefghijklmnopqrstuvwxyz", i, i)
    ELSE c

\* str.lower()
Lower(s) == [i \in 1..Len(s) |-> LowerChar(s[i])]

\* The regular expression classes \s, \d and \w.
IsSpace(c) == c \in {" ", "\t", "\n"}
IsDigit(c) == c \in {"0", "1", "2", "3", "4", "5", "6", "7", "8", "9"}
IsWordChar(c) ==
    \E i \in 1..63 :
        SubSeq("ABCDEFGHIJKLMNOPQRSTUVWXYZabcdefghijklmnopqrstuvwxyz0123456789_", i, i) = c

ClassHas(cls, c) ==
    CASE cls = "s" -> IsSpace(c)
      [] cls = "d" -> IsDigit(c)
      [] cls = "w" -> IsWordChar(c)

\* Whether the character at position k exists and is a \w character.
WordAt(s, k) == k >= 1 /\ k <= Len(s) /\ IsWordChar(s[k])

\* The regular expression assertion \b just before position k.
Boundary(s, k) == WordAt(s, k - 1) # WordAt(s, k)

\* Whether pat, compared without regard to case (re.IGNORECASE), starts at
\* position i of s.
MatchesAt(pat, s, i) ==
    /\ i >= 1
    /\ i + Len(pat) - 1 <= Len(s)
    /\ \A k \in 1..Len(pat) : LowerChar(s[i + k - 1]) = LowerChar(pat[k])

\* Python's "needle in haystack" on strings.
StrIn(needle, haystack) ==
    \E i \in 1..(Len(haystack) - Len(needle) + 1) :
        SubSeq(haystack, i, i + Len(needle) - 1) = needle

\* re.search(r"\bword\b", s, re.IGNORECASE) is not None
SearchWord(word, s) ==
    \E i \in 1..(Len(s) - Len(word) + 1) :
        /\ MatchesAt(word, s, i)
        /\ Boundary(s, i)
        /\ Boundary(s, i + Len(word))

\* The least element of a set of positive numbers, 0 for the empty set.
MinOrZero(S) == IF S = {} THEN 0 ELSE CHOOSE x \in S : \A y \in S : x <= y

(***************************************************************************)
(* Variant B classifier                                                    *)
(***************************************************************************)

Ollama_strong_patterns ==
    << "course", "lesson", "tutorial", "module", "MCP", "Claude", "Anthropic" >>

Ollama_educational_patterns ==
    << "how to", "what is", "what are", "explain", "learn", "teach",
       "show me", "tell me about", "describe" >>

Ollama_tech_keywords ==
    << "api", "programming", "code", "software", "development", "python",
       "javascript", "database", "ml", "ai" >>

LocalAI_strong_patterns ==
    << "course", "lesson", "tutorial", "module", "MCP", "Claude", "Anthropic" >>

LocalAI_educational_patterns ==
    << "how to", "what is", "what are", "explain", "learn", "teach",
       "show me", "tell me about", "describe" >>

LocalAI_tech_keywords ==
    << "api", "programming", "code", "software", "development", "python",
       "javascript", "database", "ml", "ai" >>

\* any(pattern in query_lower for pattern in patterns)
AnyIn(patterns, query_lower) ==
    \E k \in 1..Len(patterns) : StrIn(Chars(patterns[k]), query_lower)

\* any(re.search(pattern, query, re.IGNORECASE) for pattern in strong_patterns)
AnySearch(patterns, q) ==
    \E k \in 1..Len(patterns) : SearchWord(Chars(patterns[k]), q)

\* A faulty classifier: any one of the three tests is enough.
ShouldSearchEitherOne(strong, educational, tech, query) ==
    LET query_lower == Lower(Chars(query))
    IN  \/ AnySearch(strong, Chars(query))
        \/ AnyIn(educational, query_lower)
        \/ AnyIn(tech, query_lower)

\* The body shared, word for word, by the two _should_search_courses.
ShouldSearch(strong, educational, tech, query) ==
    LET query_lower == Lower(Chars(query))
        has_educational == AnyIn(educational, query_lower)
        has_tech == AnyIn(tech, query_lower)
    IN  IF AnySearch(strong, Chars(query))
        THEN TRUE
        ELSE has_educational /\ has_tech

Ollama_should_search_courses(query) ==
    ShouldSearch(Ollama_strong_patterns, Ollama_educational_patterns,
                 Ollama_tech_keywords, query)

\* A LocalAI classifier that knows the trigger terms only.
LocalAI_should_search_coursesStrongOnly(query) ==
    AnySearch(LocalAI_strong_patterns, Chars(query))

LocalAI_should_search_courses(query) ==
    ShouldSearch(LocalAI_strong_patterns, LocalAI_educational_patterns,
                 LocalAI_tech_keywords, query)

(***************************************************************************)
(* Variant B extractor                                                     *)
(***************************************************************************)

\* Length of the longest run of characters of a class that starts at k
\* (k <= Len(s) + 1).
RunLen(cls, s, k) ==
    CHOOSE n \in 0..(Len(s) - k + 1) :
        /\ \A j \in k..(k + n - 1) : ClassHas(cls, s[j])
        /\ k + n <= Len(s) => ~ClassHas(cls, s[k + n])

\* The pieces the patterns are made of: a literal (matched without regard to
\* case) and the greedy classes \s+, \d+, \w+.
Lit(word) == [t |-> "lit", v |-> word]
Plus(cls) == [t |-> "plus", v |-> cls]

\* Position after the match of items at position i of s, 0 when there is none.
\* Every greedy class of the patterns below is followed by a character outside
\* the class or by \b, so the longest run is the only one that can match.
RECURSIVE MatchEnd(_, _, _)
RECURSIVE AfterRun(_, _, _, _)
MatchEnd(items, s, i) ==
    IF Len(items) = 0 THEN i
    ELSE IF Head(items).t = "lit"
         THEN IF MatchesAt(Chars(Head(items).v), s, i)
              THEN MatchEnd(Tail(items), s, i + Len(Head(items).v))
              ELSE 0
         ELSE IF i <= Len(s)
              THEN AfterRun(Tail(items), s, i, RunLen(Head(items).v, s, i))
              ELSE 0

\* ... after a run of n characters of the class.
AfterRun(items, s, i, n) == IF n >= 1 THEN MatchEnd(items, s, i + n) ELSE 0

\* Whether a match that starts at i and ends before e has \b on both sides.
Bounded(s, i, e) == Boundary(s, i) /\ e > 0 /\ Boundary(s, e)

\* re.search(r"\b items \b", s, re.IGNORECASE): the start of the leftmost
\* match, 0 when there is none.
SearchStart(items, s) ==
    MinOrZero({i \in 1..Len(s) : Bounded(s, i, MatchEnd(items, s, i))})

\* The first pattern of a list that matches s, 0 when none does.
FirstMatching(patterns, s) ==
    MinOrZero({k \in 1..Len(patterns) : SearchStart(patterns[k], s) > 0})

Front(seq) == SubSeq(seq, 1, Len(seq) - 1)

\* int() of a string of digits.
ToInt(ds) ==
    LET F[k \in 0..Len(ds)] ==
            IF k = 0 THEN 0
            ELSE 10 * F[k - 1]
                 + (CHOOSE v \in 0..9 : SubSeq("0123456789", v + 1, v + 1) = ds[k])
    IN  F[Len(ds)]

lesson_patterns ==
    << << Lit("lesson"), Plus("s"), Plus("d") >>,
       << Lit("in"), Plus("s"), Lit("lesson"), Plus("s"), Plus("d") >>,
       << Lit("of"), Plus("s"), Lit("lesson"), Plus("s"), Plus("d") >> >>

\* match.group(1) of a lesson pattern whose leftmost match starts at i.
LessonGroup(items, s, i) ==
    SubSeq(s, MatchEnd(Front(items), s, i), MatchEnd(items, s, i) - 1)

\* A faulty lesson loop: a query without a lesson gets the lesson number 0.
LessonPartDefaultZero(s, l) ==
    IF l > 0
    THEN "lesson_number" :>
            ToInt(LessonGroup(lesson_patterns[l], s, SearchStart(lesson_patterns[l], s)))
    ELSE "lesson_number" :> 0

\* for pattern in lesson_patterns: ... params["lesson_number"] = int(...); break
\* with l the first pattern that matches.
LessonPart(s, l) ==
    IF l > 0
    THEN "lesson_number" :>
            ToInt(LessonGroup(lesson_patterns[l], s, SearchStart(lesson_patterns[l], s)))
    ELSE << >>

course_patterns == << "in", "from", "about", "of" >>

\* What follows the captured text, \s+course, with n the whitespace at k.
CourseAfter(s, k, n) == n >= 1 /\ MatchesAt(Chars("course"), s, k + n)

CourseFollows(s, k) == k <= Len(s) /\ CourseAfter(s, k, RunLen("s", s, k))

\* Length of the shortest text [^?]+? at position c that \s+course follows,
\* 0 when there is none.
CaptureLen(s, c) ==
    MinOrZero({n \in 1..(Len(s) - c + 1) :
                  /\ \A k \in c..(c + n - 1) : s[k] # "?"
                  /\ CourseFollows(s, c + n)})

\* The ways kw\s+(?:the\s+)?([^?]+?) can begin at position i, each with the
\* number of characters the first \s+ takes (w1), whether "the" is taken, the
\* number the second \s+ takes (w2), and where the captured text starts (c).
CourseTries(kw, s, i) ==
    IF ~MatchesAt(Chars(kw), s, i) \/ i + Len(kw) > Len(s) THEN {}
    ELSE UNION {
            {[w1 |-> w1, the |-> 0, w2 |-> 0, c |-> i + Len(kw) + w1]}
            \cup
            (IF MatchesAt(Chars("the"), s, i + Len(kw) + w1)
                /\ i + Len(kw) + w1 + 3 <= Len(s)
             THEN {[w1 |-> w1, the |-> 1, w2 |-> w2, c |-> i + Len(kw) + w1 + 3 + w2] :
                      w2 \in 1..RunLen("s", s, i + Len(kw) + w1 + 3)}
             ELSE {})
            : w1 \in 1..RunLen("s", s, i + Len(kw)) }

\* Those of them the rest of the pattern, ([^?]+?)\s+course, completes.
CourseMatchesAt(kw, s, i) ==
    {m \in CourseTries(kw, s, i) : m.c <= Len(s) /\ CaptureLen(s, m.c) > 0}

\* The order in which the backtracking matcher tries them: greedy \s+ (longest
\* first), the optional group taken before skipped.
TriedBefore(m1, m2) ==
    \/ m1.w1 > m2.w1
    \/ m1.w1 = m2.w1 /\ m1.the > m2.the
    \/ m1.w1 = m2.w1 /\ m1.the = m2.the /\ m1.w2 >= m2.w2

FirstTried(ms) == CHOOSE m1 \in ms : \A m2 \in ms : TriedBefore(m1, m2)

\* re.search(pattern, s, re.IGNORECASE): the start of the leftmost match, 0
\* when there is none.
CourseStart(kw, s) ==
    MinOrZero({i \in 1..Len(s) : CourseMatchesAt(kw, s, i) # {}})

\* The text captured by the match m.
Captured(s, m) == SubSeq(s, m.c, m.c + CaptureLen(s, m.c) - 1)

\* match.group(1) of the match that starts at i.
CourseGroup(kw, s, i) == Captured(s, FirstTried(CourseMatchesAt(kw, s, i)))

\* The first course pattern that matches s, 0 when none does.
FirstCourse(s) ==
    MinOrZero({k \in 1..Len(course_patterns) : CourseStart(course_patterns[k], s) > 0})

\* str.strip()
Trim(s, keep) ==
    IF keep = {} THEN << >>
    ELSE SubSeq(s, CHOOSE k \in keep : \A k2 \in keep : k <= k2,
                   CHOOSE k \in keep : \A k2 \in keep : k >= k2)

Strip(s) == Trim(s, {k \in 1..Len(s) : ~IsSpace(s[k])})

Copulas == << "is", "are", "was", "were" >>

\* Whether (is|are|was|were)\s*$ matches at position j.
CopulaToEnd(s, j) ==
    \E k \in 1..Len(Copulas) :
        /\ MatchesAt(Chars(Copulas[k]), s, j)
        /\ \A e \in (j + Len(Copulas[k]))..Len(s) : IsSpace(s[e])

CutBefore(s, i) == IF i = 0 THEN s ELSE SubSeq(s, 1, i - 1)

\* re.sub(r"\s+(is|are|was|were)\s*$", "", s, flags=re.IGNORECASE)
StripCopula(s) ==
    CutBefore(s, MinOrZero({i \in 1..Len(s) :
                    IsSpace(s[i]) /\ CopulaToEnd(s, i + RunLen("s", s, i))}))

course_identifiers ==
    << << Lit("MCP") >>,
       << Lit("Introduction"), Plus("s"), Lit("to"), Plus("s"), Lit("MCP") >>,
       << Lit("Anthropic") >>,
       << Lit("Claude") >>,
       << Lit("Building"), Plus("s"), Lit("with"), Plus("s"), Plus("w") >> >>

\* match.group(0) of an identifier pattern whose leftmost match starts at i.
WholeMatch(items, s, i) == SubSeq(s, i, MatchEnd(items, s, i) - 1)

\* if "course_name" not in params: for pattern in course_identifiers: ...
\* with d the first identifier that matches.
IdentifierPart(s, d) ==
    IF d > 0
    THEN "course_name" :>
            Str(WholeMatch(course_identifiers[d], s,
                           SearchStart(course_identifiers[d], s)))
    ELSE << >>

\* A faulty course loop: a course identifier in the query is preferred to the
\* course phrase.
CoursePartIdentifierFirst(s, c) ==
    IF FirstMatching(course_identifiers, s) > 0 \/ c = 0
    THEN IdentifierPart(s, FirstMatching(course_identifiers, s))
    ELSE "course_name" :>
            Str(StripCopula(Strip(
                CourseGroup(course_patterns[c], s, CourseStart(course_patterns[c], s)))))

\* for pattern in course_patterns: ... params["course_name"] = course_name; break
\* with c the first pattern that matches, and the fallback when there is none.
CoursePart(s, c) ==
    IF c > 0
    THEN "course_name" :>
            Str(StripCopula(Strip(
                CourseGroup(course_patterns[c], s, CourseStart(course_patterns[c], s)))))
    ELSE IdentifierPart(s, FirstMatching(course_identifiers, s))

\* A faulty extractor: a parameter that was not found is passed on empty.
ExtractSearchParametersAllKeys(query) ==
    [query |-> query]
    @@ LessonPart(Chars(query), FirstMatching(lesson_patterns, Chars(query)))
    @@ CoursePart(Chars(query), FirstCourse(Chars(query)))
    @@ [course_name |-> "", lesson_number |-> 0]

\* The body shared, word for word, by the two _extract_search_parameters: a
\* dict with the key "query" and, when found, "lesson_number" and "course_name".
ExtractSearchParameters(query) ==
    [query |-> query]
    @@ LessonPart(Chars(query), FirstMatching(lesson_patterns, Chars(query)))
    @@ CoursePart(Chars(query), FirstCourse(Chars(query)))

Ollama_extract_search_parameters(query) == ExtractSearchParameters(query)

LocalAI_extract_search_parameters(query) == ExtractSearchParameters(query)

(***************************************************************************)
(* Values that cross the boundary of generate_response                     *)
(***************************************************************************)

\* A Python str built from the given parts (an f-string's pieces), and None.
PyStr(parts) == [type |-> "str", parts |-> parts]
None == [type |-> "NoneType", parts |-> <<>>]
\* No value yet: the call has not returned.
Pending == [type |-> "pending", parts |-> <<>>]
\* An exception leaving generate_response.
Raised(e) == [type |-> "raise", parts |-> <<e.cls, e.msg>>]

\* bool(v) of a str or None.
Truthy(v) == v.type = "str" /\ \E k \in 1..Len(v.parts) : v.parts[k] # ""

\* The exception classes of the backends' SDKs and those the code itself can
\* raise, each with the classes it is an instance of.
Bases(cls) ==
    CASE cls = "AuthenticationError" -> {"AuthenticationError", "APIError", "Exception"}
      [] cls = "RateLimitError" -> {"RateLimitError", "APIError", "Exception"}
      [] cls = "APIError" -> {"APIError", "Exception"}
      [] OTHER -> {cls, "Exception"}

IsInstance(e, cls) == cls \in Bases(e.cls)

NoExc == [cls |-> "none", msg |-> ""]

ExcMessages == {"Your Credit Balance is too low", "Service overloaded"}

\* What a model call can raise.
ModelExceptions ==
    [cls : {"AuthenticationError", "RateLimitError", "APIError", "ConnectionError"},
     msg : ExcMessages]

\* What a tool dispatch can raise.
ToolExceptions == {[cls |-> "RuntimeError", msg |-> "search backend down"]}

IndexError == [cls |-> "IndexError", msg |-> "list index out of range"]
AttributeError == [cls |-> "AttributeError", msg |-> "object has no attribute 'text'"]

(***************************************************************************)
(* Variant A: the except clauses                                           *)
(***************************************************************************)

InvalidKeyMessage ==
    PyStr(<<"Error: Invalid Anthropic API key. Please check your API key configuration.">>)
RateLimitMessage ==
    PyStr(<<"Error: API rate limit exceeded. Please try again in a moment.">>)
CreditsMessage ==
    PyStr(<<"Error: Insufficient Anthropic API credits. Please add credits to your Anthropic account to continue using the service.">>)
RequestFailedMessage(e) == PyStr(<<"Error: API request failed - ", e.msg>>)
UnexpectedMessage(e) == PyStr(<<"Error: An unexpected error occurred - ", e.msg>>)

\* "credit balance" in str(e).lower()
MentionsCredit(e) == StrIn(Chars("credit balance"), Lower(Chars(e.msg)))

\* A faulty chain: the rate-limit clause is missing.
ExceptClausesNoRateLimit(e) ==
    IF IsInstance(e, "AuthenticationError") THEN InvalidKeyMessage
    ELSE IF IsInstance(e, "APIError")
         THEN IF MentionsCredit(e) THEN CreditsMessage ELSE RequestFailedMessage(e)
    ELSE IF IsInstance(e, "Exception") THEN UnexpectedMessage(e)
    ELSE Raised(e)

\* A faulty chain: an API error without "credit balance" falls through to
\* the last clause.
ExceptClausesApiAsUnexpected(e) ==
    IF IsInstance(e, "AuthenticationError") THEN InvalidKeyMessage
    ELSE IF IsInstance(e, "RateLimitError") THEN RateLimitMessage
    ELSE IF IsInstance(e, "APIError") /\ MentionsCredit(e) THEN CreditsMessage
    ELSE IF IsInstance(e, "Exception") THEN UnexpectedMessage(e)
    ELSE Raised(e)

\* The chain of except clauses, the same text at all four places.
ExceptClauses(e) ==
    IF IsInstance(e, "AuthenticationError") THEN InvalidKeyMessage
    ELSE IF IsInstance(e, "RateLimitError") THEN RateLimitMessage
    ELSE IF IsInstance(e, "APIError")
         THEN IF MentionsCredit(e) THEN CreditsMessage ELSE RequestFailedMessage(e)
    ELSE IF IsInstance(e, "Exception") THEN UnexpectedMessage(e)
    ELSE Raised(e)

\* generate_response: except ... of the first model call (and of whatever
\* _handle_tool_execution lets through).
Anthropic_generate_except(e) == ExceptClauses(e)
AIGenerator_generate_except(e) == ExceptClauses(e)
\* _handle_tool_execution: except ... of the follow-up model call.
Anthropic_final_except(e) == ExceptClauses(e)
AIGenerator_final_except(e) == ExceptClauses(e)

(***************************************************************************)
(* Variant B: the except clause                                            *)
(***************************************************************************)

OLLAMA_MODEL == "llama3.2"
LOCALAI_BASE_URL == "http://localhost:8080/v1/"

Ollama_except(e) ==
    IF IsInstance(e, "Exception")
    THEN PyStr(<<"Error: Failed to connect to Ollama - ", e.msg,
                 ". Make sure Ollama is running and the model '", OLLAMA_MODEL,
                 "' is installed.">>)
    ELSE Raised(e)

LocalAI_except(e) ==
    IF IsInstance(e, "Exception")
    THEN PyStr(<<"Error: Failed to connect to LocalAI - ", e.msg,
                 ". Make sure LocalAI is running at ", LOCALAI_BASE_URL, ".">>)
    ELSE Raised(e)

(***************************************************************************)
(* The inputs of a query and the answers of the backends                  *)
(***************************************************************************)

Providers == {"AnthropicProvider", "AIGenerator", "OllamaProvider", "LocalAIProvider"}
VariantA(p) == p \in {"AnthropicProvider", "AIGenerator"}
VariantB(p) == p \in {"OllamaProvider", "LocalAIProvider"}

Queries ==
    { "What is MCP?", "Tell me a joke", "How to use the API?",
      "What's the weather?", "What is the capital of France?",
      "What is covered in lesson 2 of the MCP course?",
      "What is MCP in the Introduction to MCP course?",
      "Which courses teach SQL?", "Explain gravity",
      "Debug my Python code", "mcp basics",
      "Summarize lesson 5", "In LESSON 12 of MCP", "lesson 2a or lesson 3",
      "lesson one recap",
      "of the Claude course from the MCP course",
      "About tools that ARE course topics",
      "Lesson 1 of Building with Claude", "Explain the API course" }

\* conversation_history: None, or the formatted earlier exchanges.
Histories == {None, PyStr(<<"User: hi\nAssistant: hello">>)}

\* Largest number of content blocks in a response of the Anthropic API.
MaxBlocks == 2

BlockKinds == {"text", "search", "outline"}

\* A content block of a response: a text block, or a tool_use block with the
\* id the API gave it (ids are unique within a response).
Block(kind, pos) ==
    CASE kind = "text" -> [type |-> "text", text |-> "MCP is the Model Context Protocol"]
      [] kind = "search" ->
            [type |-> "tool_use", id |-> <<"toolu", pos>>,
             name |-> "search_course_content", input |-> [query |-> "MCP"]]
      [] kind = "outline" ->
            [type |-> "tool_use", id |-> <<"toolu", pos>>,
             name |-> "get_course_outline", input |-> [course_name |-> "MCP"]]

Contents ==
    UNION { { [i \in 1..n |-> Block(f[i], i)] : f \in [1..n -> BlockKinds] } :
            n \in 0..MaxBlocks }

\* client.messages.create(...) when it returns.
AnthropicResponses == [stop_reason : {"end_turn", "tool_use"}, content : Contents]

\* client.chat.completions.create(...) when it returns.
OpenAIResponses ==
    { [choices |-> <<>>],
      [choices |-> << [message |-> [content |-> PyStr(<<"MCP is a protocol">>)]] >>],
      [choices |-> << [message |-> [content |-> None]] >>] }

\* tool_manager.execute_tool(...) when it returns: nothing, a labeled block,
\* and the content-search tool's own text for a search without results.
ToolTexts == {"", "[Introduction to MCP - Lesson 1]\nMCP servers provide tools"}
SearchTexts == ToolTexts \cup {"No relevant content found in course 'MCP'."}

NoResponse == [stop_reason |-> "none", content |-> <<>>]

(***************************************************************************)
(* The Semantic Store, the Retrieval Tools and the Tool Registry, after    *)
(* sections 4.1 to 4.3 of the design and the tests of search_tools         *)
(***************************************************************************)

\* A lesson number that may be missing: << >>, or <<n>>.
NoLesson == << >>
\* The course title a name did not resolve to.
NoTitle == ""

\* A content fragment (CourseChunk).
Fragment(title, lesson, text) ==
    [course_title |-> title, lesson_number |-> lesson, content |-> text]

\* The fragments of the sample courses (sample_course_chunks and
\* second_course_chunks), in the order the store returns them for a query:
\* nearest first.
SampleFragments ==
    << Fragment("Introduction to MCP", <<0>>,
           "MCP stands for Model Context Protocol. It's a standardized way to connect AI models to external data sources."),
       Fragment("Building with Anthropic Claude", <<0>>,
           "Claude is Anthropic's AI assistant. It's designed to be helpful, harmless, and honest."),
       Fragment("Introduction to MCP", <<1>>,
           "MCP servers provide tools and resources that AI models can use. A tool is a function that the model can call to perform actions."),
       Fragment("Introduction to MCP", <<0>>,
           "The Model Context Protocol enables AI assistants to securely access data from various sources like databases, APIs, and file systems."),
       Fragment("Building with Anthropic Claude", <<1>>,
           "Effective prompt engineering with Claude involves clear instructions, examples, and structured thinking."),
       Fragment("Introduction to MCP", <<1>>,
           "Resources in MCP represent data that the model can read. They are similar to files or database records."),
       Fragment("Introduction to MCP", <<2>>,
           "Advanced MCP features include streaming, pagination, and error handling for robust integrations.") >>

\* A store: the course catalog, the fragments in the order the store returns
\* them, and the distance of each to the query (some are equal).
EmptyStore == [catalog |-> {}, fragments |-> << >>, distances |-> << >>]
SampleStore ==
    [catalog |-> {"Introduction to MCP", "Building with Anthropic Claude"},
     fragments |-> SampleFragments,
     distances |-> <<1, 2, 2, 2, 3, 4, 4>>]

\* The configured maximum of results, K.
MAX_RESULTS == 5

\* resolve_course_title(fuzzy_name): what the similarity search over the
\* catalog may return.  Nothing in an empty catalog; the title that alone
\* contains the name; otherwise the store decides (some title, or nothing).
resolve_course_title(st, fuzzy_name) ==
    IF st.catalog = {} THEN {NoTitle}
    ELSE IF Cardinality({t \in st.catalog : StrIn(Chars(fuzzy_name), Chars(t))}) = 1
         THEN {t \in st.catalog : StrIn(Chars(fuzzy_name), Chars(t))}
         ELSE st.catalog \cup {NoTitle}

\* Whether a fragment passes the filter (a missing part filters nothing).
PassesFilter(f, title, lesson) ==
    /\ title # NoTitle => f.course_title = title
    /\ lesson # NoLesson => f.lesson_number = lesson

\* The first k elements of a sequence.
FirstK(seq, k) == SubSeq(seq, 1, IF Len(seq) < k THEN Len(seq) ELSE k)

\* A search that returns every fragment that passes the filter.
search_contentUnbounded(st, title, lesson, k) ==
    LET Passes(f) == PassesFilter(f, title, lesson)
    IN  SelectSeq(st.fragments, Passes)

\* search_content(query, course_title, lesson_number, k): the nearest k
\* fragments that pass the filter, nearest first; none is not an error.
search_content(st, title, lesson, k) ==
    LET Passes(f) == PassesFilter(f, title, lesson)
    IN  FirstK(SelectSeq(st.fragments, Passes), k)

\* What a tool hands back: its text and whether it raised.
ToolText(kind, parts) == [kind |-> kind, parts |-> parts, raised |-> FALSE]
ToolRaise(cls, msg) == [kind |-> "raise", parts |-> <<cls, msg>>, raised |-> TRUE]

\* "No course found matching '<name>'"
NoCourseFound(name) == ToolText("error", <<"No course found matching '", name, "'">>)

\* An optional argument of a call: the lesson number.
LessonArg(kwargs) ==
    IF "lesson_number" \in DOMAIN kwargs THEN <<kwargs.lesson_number>> ELSE NoLesson

\* "No relevant content found", with the filter that was active.
NoContentFound(kwargs) ==
    ToolText("notice",
        <<"No relevant content found">>
        \o (IF "course_name" \in DOMAIN kwargs
            THEN <<" in course '", kwargs.course_name, "'">> ELSE << >>)
        \o (IF "lesson_number" \in DOMAIN kwargs
            THEN <<" in lesson ", ToString(kwargs.lesson_number)>> ELSE << >>))

\* The label of a fragment: its course title and, when it has one, its
\* lesson.  A citation is the label of a block.
Label(f) == <<f.course_title>> \o f.lesson_number

\* The formatted result: one labeled block for each fragment, in order.
FormatResults(results) ==
    ToolText("blocks",
        [i \in 1..Len(results) |->
            [label |-> Label(results[i]), text |-> results[i].content]])

\* An execute that searches without the course filter when the name did not
\* resolve.
CourseSearchTool_executeSearchesAnyway(st, kwargs, sources, title) ==
    LET results == search_content(st, title, LessonArg(kwargs), MAX_RESULTS)
    IN  IF results = << >>
        THEN [text |-> NoContentFound(kwargs), sources |-> sources,
              searched |-> TRUE]
        ELSE [text |-> FormatResults(results),
              sources |-> [i \in 1..Len(results) |-> Label(results[i])],
              searched |-> TRUE]

\* CourseSearchTool.execute(query, course_name, lesson_number) when the
\* course name, if given, resolved to title: the text, the citation list
\* after it (sources is the list before it), and whether the store was
\* searched.
CourseSearchTool_execute(st, kwargs, sources, title) ==
    IF "course_name" \in DOMAIN kwargs /\ title = NoTitle
    THEN [text |-> NoCourseFound(kwargs.course_name), sources |-> sources,
          searched |-> FALSE]
    ELSE LET results == search_content(st, title, LessonArg(kwargs), MAX_RESULTS)
         IN  IF results = << >>
             THEN [text |-> NoContentFound(kwargs), sources |-> sources,
                   searched |-> TRUE]
             ELSE [text |-> FormatResults(results),
                   sources |-> [i \in 1..Len(results) |-> Label(results[i])],
                   searched |-> TRUE]

\* CourseOutlineTool.execute(course_name): the outline of the course the
\* name resolved to; no citations.
CourseOutlineTool_execute(st, kwargs, sources, title) ==
    IF title = NoTitle
    THEN [text |-> NoCourseFound(kwargs.course_name), sources |-> sources,
          searched |-> FALSE]
    ELSE [text |-> ToolText("outline", <<"Course: ", title>>), sources |-> sources,
          searched |-> FALSE]

\* The tools of the registry, in the order of their registration.
RegisteredTools == << "search_course_content", "get_course_outline" >>

\* "Tool '<name>' not found"
ToolNotFound(name) == ToolText("error", <<"Tool '", name, "' not found">>)

Registered(name) == \E k \in 1..Len(RegisteredTools) : RegisteredTools[k] = name

\* An execute_tool that looks the name up with tools[name]: KeyError.
ToolManager_execute_toolRaises(st, name, kwargs, lists, title) ==
    IF ~Registered(name)
    THEN [text |-> ToolRaise("KeyError", name), lists |-> lists, searched |-> FALSE]
    ELSE LET out == IF name = "search_course_content"
                    THEN CourseSearchTool_execute(st, kwargs, lists[name], title)
                    ELSE CourseOutlineTool_execute(st, kwargs, lists[name], title)
         IN  [text |-> out.text, lists |-> [lists EXCEPT ![name] = out.sources],
              searched |-> out.searched]

\* ToolManager.execute_tool(name, **kwargs): the text, every tool's citation
\* list after it (lists holds them before it), and whether the store was
\* searched.
ToolManager_execute_tool(st, name, kwargs, lists, title) ==
    IF ~Registered(name)
    THEN [text |-> ToolNotFound(name), lists |-> lists, searched |-> FALSE]
    ELSE LET out == IF name = "search_course_content"
                    THEN CourseSearchTool_execute(st, kwargs, lists[name], title)
                    ELSE CourseOutlineTool_execute(st, kwargs, lists[name], title)
         IN  [text |-> out.text, lists |-> [lists EXCEPT ![name] = out.sources],
              searched |-> out.searched]

\* Every tool's citation list empty: a new registry, and reset_sources().
NoSources ==
    [name \in {RegisteredTools[k] : k \in 1..Len(RegisteredTools)} |-> << >>]

\* ToolManager.get_last_sources(): the citations of the tools, in the order
\* of their registration.
get_last_sources(lists) ==
    LET All[k \in 0..Len(RegisteredTools)] ==
            IF k = 0 THEN << >> ELSE All[k - 1] \o lists[RegisteredTools[k]]
    IN  All[Len(RegisteredTools)]

\* A reset that leaves the lists as they are.
reset_sourcesKeepsThem(lists) == lists

\* ToolManager.reset_sources()
reset_sources(lists) == NoSources

\* The tool calls a query may ask for: searches without a filter, with a
\* course that resolves, with a course that may not and with a lesson no
\* fragment has, an outline, and a tool that is not registered.
ToolCalls ==
    { [name |-> "search_course_content", input |-> [query |-> "What is MCP?"]],
      [name |-> "search_course_content",
       input |-> [query |-> "What are tools?", course_name |-> "MCP"]],
      [name |-> "search_course_content",
       input |-> [query |-> "test", course_name |-> "Nonexistent Course"]],
      [name |-> "search_course_content",
       input |-> [query |-> "tools and resources", lesson_number |-> 5]],
      [name |-> "get_course_outline", input |-> [course_name |-> "MCP"]],
      [name |-> "nonexistent_tool", input |-> [query |-> "test"]] }

(***************************************************************************)
(* State                                                                   *)
(***************************************************************************)

VARIABLES
    pc,                    \* where the query is (the orchestrator's state machine)
    provider,              \* the class whose generate_response runs
    query,                 \* generate_response's arguments ...
    conversation_history,
    tools,                 \* ... whether tools is a non-empty list
    tool_manager,          \* ... whether a tool_manager was passed
    api_calls,             \* the model calls issued so far, with their parameters
    dispatches,            \* the execute_tool calls issued so far
    response,              \* Variant A: the first response
    final_response,        \* Variant A: the local variable final_response
    block_idx,             \* Variant A: the content block being dispatched
    messages,              \* the local variable messages
    tool_results,          \* Variant A: the local variable tool_results
    should_search,         \* Variant B: the local variable should_search
    search_context,        \* Variant B: the local variable search_context
    failure,               \* the exception the query ran into, with its place
    result,                \* what generate_response returned
    store,                 \* the Semantic Store behind the tools
    last_sources,          \* each registered tool's last_sources
    turns,                 \* the query turns of the callers of the facade
    last_run,              \* the registry or buffer operation that has just run
    sessions,              \* the Conversation Buffer: each session's turns
    session_counter        \* the number of ids create_session has handed out

\* The variables of one generate_response, and those of the retrieval layer.
orchestrator == << pc, provider, query, conversation_history, tools, tool_manager,
                   api_calls, dispatches, response, final_response, block_idx,
                   messages, tool_results, should_search, search_context, failure,
                   result >>

\* The Conversation Buffer.
buffer == << sessions, session_counter >>

retrieval == << store, last_sources, turns, last_run, sessions, session_counter >>

vars == << pc, provider, query, conversation_history, tools, tool_manager,
           api_calls, dispatches, response, final_response, block_idx, messages,
           tool_results, should_search, search_context, failure, result,
           store, last_sources, turns, last_run, sessions, session_counter >>

\* The callers that may have a query turn under way at the same time.
Clients == {1, 2}

\* A turn that is not under way.  served tells whether an earlier turn of the
\* caller came back with citations.
IdleTurn ==
    [pc |-> "Idle", variant |-> "A", calls |-> 0, own |-> NoSources,
     searched |-> FALSE, sources |-> << >>, alone |-> TRUE, served |-> FALSE,
     session |-> None, question |-> "", history |-> None, answer |-> "",
     seen |-> 0]

NoRun == [op |-> "none"]

\* The retrieval layer with no turn under way.
RetrievalAtRest ==
    /\ last_sources = NoSources
    /\ turns = [c \in Clients |-> IdleTurn]
    /\ last_run = NoRun
    /\ sessions = << >>
    /\ session_counter = 0

NoFailure == [at |-> "none", exc |-> NoExc]

Init ==
    /\ pc = "Idle"
    /\ provider \in Providers
    /\ query = ""
    /\ conversation_history = None
    /\ tools = FALSE
    /\ tool_manager = FALSE
    /\ api_calls = <<>>
    /\ dispatches = <<>>
    /\ response = NoResponse
    /\ final_response = NoResponse
    /\ block_idx = 0
    /\ messages = <<>>
    /\ tool_results = <<>>
    /\ should_search = FALSE
    /\ search_context = <<>>
    /\ failure = NoFailure
    /\ result = Pending
    /\ store = SampleStore
    /\ RetrievalAtRest

\* A new call of generate_response: the arguments, and every local cleared.
Enter(p, q, h, t, tm) ==
    /\ pc = "Idle"
    /\ provider = p
    /\ query' = q
    /\ conversation_history' = h
    /\ tools' = t
    /\ tool_manager' = tm
    /\ failure' = NoFailure
    /\ result' = Pending
    /\ UNCHANGED provider

(***************************************************************************)
(* Variant A: AnthropicProvider.generate_response and                      *)
(* AIGenerator.generate_response                                           *)
(***************************************************************************)

SYSTEM_PROMPT(p) ==
    IF p = "AIGenerator"
    THEN " You are an AI assistant ... with access to comprehensive search tools for course information. ..."
    ELSE " You are an AI assistant ... with access to a comprehensive search tool for course information. ..."

system_content(p, h) ==
    IF Truthy(h)
    THEN <<SYSTEM_PROMPT(p), "\n\nPrevious conversation:\n">> \o h.parts
    ELSE <<SYSTEM_PROMPT(p)>>

\* api_params; tools stands for the two keys "tools" and "tool_choice".
api_params(p, q, h, t) ==
    [messages |-> << [role |-> "user", content |-> PyStr(<<q>>)] >>,
     system |-> system_content(p, h),
     tools |-> t]

generate_except(p, e) ==
    IF p = "AIGenerator" THEN AIGenerator_generate_except(e)
    ELSE Anthropic_generate_except(e)

final_except(p, e) ==
    IF p = "AIGenerator" THEN AIGenerator_final_except(e)
    ELSE Anthropic_final_except(e)

\* response.content[0].text, or the exception the expression raises.
FirstText(resp) ==
    IF Len(resp.content) = 0 THEN [ok |-> FALSE, exc |-> IndexError, text |-> ""]
    ELSE IF resp.content[1].type # "text"
         THEN [ok |-> FALSE, exc |-> AttributeError, text |-> ""]
    ELSE [ok |-> TRUE, exc |-> NoExc, text |-> resp.content[1].text]

\* tool_manager.execute_tool(name, **input): the call as the registry sees it,
\* and what came back once it has come back.
execute_tool(name, input) == [name |-> name, input |-> input, returned |-> Pending]

Returned(log, v) == [log EXCEPT ![Len(log)].returned = v]

\* A faulty loop: it starts one block too late.
NextToolUseAfter(content, k) ==
    LET at == {i \in (k + 1)..Len(content) : content[i].type = "tool_use"}
    IN  IF at = {} THEN 0 ELSE CHOOSE i \in at : \A i2 \in at : i <= i2

\* The first tool_use block at or after position k, 0 when there is none:
\* the loop "for content_block in initial_response.content".
NextToolUse(content, k) ==
    LET at == {i \in k..Len(content) : content[i].type = "tool_use"}
    IN  IF at = {} THEN 0 ELSE CHOOSE i \in at : \A i2 \in at : i <= i2

\* Faulty final_params: built from api_params, tools and all.
final_paramsFromApiParams(msgs, first) ==
    [messages |-> msgs, system |-> first.system, tools |-> first.tools]

\* final_params: base_params, messages and system; no tools, no tool_choice.
final_params(msgs, first) ==
    [messages |-> msgs, system |-> first.system, tools |-> FALSE]

\* The rest of _handle_tool_execution once block k - 1 is done: dispatch the
\* next tool_use block, or append the results and issue the follow-up call.
ContinueToolRound(content, k, msgs, results, log) ==
    LET n == NextToolUse(content, k) IN
    IF n > 0
    THEN /\ dispatches' = Append(log, execute_tool(content[n].name, content[n].input))
         /\ block_idx' = n
         /\ messages' = msgs
         /\ tool_results' = results
         /\ pc' = "ToolRoundPending"
         /\ UNCHANGED api_calls
    ELSE LET final == IF Len(results) > 0
                      THEN Append(msgs, [role |-> "user",
                                         content |-> [type |-> "tool_results",
                                                      results |-> results]])
                      ELSE msgs
         IN  /\ messages' = final
             /\ tool_results' = results
             /\ api_calls' = Append(api_calls, final_params(final, api_calls[1]))
             /\ block_idx' = Len(content) + 1
             /\ pc' = "AwaitingFinalResponse"
             /\ dispatches' = log

\* A faulty test: the registry is not looked at.
WantsToolRoundWithoutRegistry(resp, tm) == resp.stop_reason = "tool_use"

\* if response.stop_reason == "tool_use" and tool_manager:
WantsToolRound(resp, tm) == resp.stop_reason = "tool_use" /\ tm

\* generate_response up to its first model call.
A_Start(p, q, h, t, tm) ==
    /\ VariantA(p)
    /\ Enter(p, q, h, t, tm)
    /\ api_calls' = << api_params(p, q, h, t) >>
    /\ dispatches' = <<>>
    /\ response' = NoResponse
    /\ final_response' = NoResponse
    /\ block_idx' = 0
    /\ messages' = <<>>
    /\ tool_results' = <<>>
    /\ UNCHANGED << should_search, search_context >>
    /\ pc' = "AwaitingFirstResponse"
    /\ UNCHANGED retrieval

\* The first model call returns resp.
A_FirstReturns(resp) ==
    /\ VariantA(provider)
    /\ pc = "AwaitingFirstResponse"
    /\ response' = resp
    /\ UNCHANGED << provider, query, conversation_history, tools, tool_manager,
                    final_response, should_search, search_context >>
    /\ IF WantsToolRound(resp, tool_manager)
       THEN /\ ContinueToolRound(resp.content, 1,
                    Append(api_calls[1].messages,
                           [role |-> "assistant",
                            content |-> [type |-> "blocks", blocks |-> resp.content]]),
                    <<>>, dispatches)
            /\ UNCHANGED << failure, result >>
       ELSE /\ LET t == FirstText(resp) IN
               IF t.ok
               THEN /\ result' = PyStr(<<t.text>>)
                    /\ failure' = NoFailure
               ELSE /\ result' = generate_except(provider, t.exc)
                    /\ failure' = [at |-> "first", exc |-> t.exc]
            /\ pc' = "Terminal"
            /\ UNCHANGED << api_calls, dispatches, block_idx, messages, tool_results >>
    /\ UNCHANGED retrieval

\* A faulty handler: the first call is issued again when it raises.
A_FirstRaisesRetries(e) ==
    /\ VariantA(provider)
    /\ pc = "AwaitingFirstResponse"
    /\ api_calls' = Append(api_calls, api_calls[1])
    /\ failure' = [at |-> "first", exc |-> e]
    /\ pc' = "AwaitingFirstResponse"
    /\ UNCHANGED << provider, query, conversation_history, tools, tool_manager,
                    dispatches, response, final_response, block_idx, messages,
                    tool_results, should_search, search_context, result >>
    /\ UNCHANGED retrieval

\* The first model call raises e.
A_FirstRaises(e) ==
    /\ VariantA(provider)
    /\ pc = "AwaitingFirstResponse"
    /\ result' = generate_except(provider, e)
    /\ failure' = [at |-> "first", exc |-> e]
    /\ pc' = "Terminal"
    /\ UNCHANGED << provider, query, conversation_history, tools, tool_manager,
                    api_calls, dispatches, response, final_response, block_idx,
                    messages, tool_results, should_search, search_context >>
    /\ UNCHANGED retrieval

\* execute_tool returns text for the block being dispatched.
A_ToolReturns(text) ==
    /\ VariantA(provider)
    /\ pc = "ToolRoundPending"
    /\ ContinueToolRound(response.content, block_idx + 1, messages,
            Append(tool_results,
                   [type |-> "tool_result",
                    tool_use_id |-> response.content[block_idx].id,
                    content |-> text]),
            Returned(dispatches, PyStr(<<text>>)))
    /\ UNCHANGED << provider, query, conversation_history, tools, tool_manager,
                    response, final_response, should_search, search_context,
                    failure, result >>
    /\ UNCHANGED retrieval

\* A faulty handler: the exception of a dispatch is swallowed and the round
\* goes on with the next block.
A_ToolRaisesSkipsBlock(e) ==
    /\ VariantA(provider)
    /\ pc = "ToolRoundPending"
    /\ ContinueToolRound(response.content, block_idx + 1, messages, tool_results,
            Returned(dispatches, Raised(e)))
    /\ UNCHANGED << provider, query, conversation_history, tools, tool_manager,
                    response, final_response, should_search, search_context,
                    failure, result >>
    /\ UNCHANGED retrieval

\* execute_tool raises e: nothing in _handle_tool_execution catches it, the
\* except clauses of generate_response do.
A_ToolRaises(e) ==
    /\ VariantA(provider)
    /\ pc = "ToolRoundPending"
    /\ result' = generate_except(provider, e)
    /\ failure' = [at |-> "tool", exc |-> e]
    /\ pc' = "Terminal"
    /\ dispatches' = Returned(dispatches, Raised(e))
    /\ UNCHANGED << provider, query, conversation_history, tools, tool_manager,
                    api_calls, response, final_response, block_idx,
                    messages, tool_results, should_search, search_context >>
    /\ UNCHANGED retrieval

\* A faulty handler: a follow-up response that asks for tools starts another
\* tool round.
A_FinalReturnsAnotherRound(resp) ==
    /\ VariantA(provider)
    /\ pc = "AwaitingFinalResponse"
    /\ final_response' = resp
    /\ IF WantsToolRound(resp, tool_manager) /\ NextToolUse(resp.content, 1) > 0
       THEN /\ ContinueToolRound(resp.content, 1, messages, <<>>, dispatches)
            /\ response' = resp
            /\ UNCHANGED << failure, result >>
       ELSE /\ LET t == FirstText(resp) IN
               IF t.ok
               THEN /\ result' = PyStr(<<t.text>>)
                    /\ failure' = NoFailure
               ELSE /\ result' = final_except(provider, t.exc)
                    /\ failure' = [at |-> "final", exc |-> t.exc]
            /\ pc' = "Terminal"
            /\ UNCHANGED << api_calls, dispatches, response, block_idx, messages,
                            tool_results >>
    /\ UNCHANGED << provider, query, conversation_history, tools, tool_manager,
                    should_search, search_context >>
    /\ UNCHANGED retrieval

\* The follow-up model call returns resp.
A_FinalReturns(resp) ==
    /\ VariantA(provider)
    /\ pc = "AwaitingFinalResponse"
    /\ final_response' = resp
    /\ LET t == FirstText(resp) IN
       IF t.ok
       THEN /\ result' = PyStr(<<t.text>>)
            /\ failure' = NoFailure
       ELSE /\ result' = final_except(provider, t.exc)
            /\ failure' = [at |-> "final", exc |-> t.exc]
    /\ pc' = "Terminal"
    /\ UNCHANGED << provider, query, conversation_history, tools, tool_manager,
                    api_calls, dispatches, response, block_idx, messages,
                    tool_results, should_search, search_context >>
    /\ UNCHANGED retrieval

\* The follow-up model call raises e.
A_FinalRaises(e) ==
    /\ VariantA(provider)
    /\ pc = "AwaitingFinalResponse"
    /\ result' = final_except(provider, e)
    /\ failure' = [at |-> "final", exc |-> e]
    /\ pc' = "Terminal"
    /\ UNCHANGED << provider, query, conversation_history, tools, tool_manager,
                    api_calls, dispatches, response, final_response, block_idx,
                    messages, tool_results, should_search, search_context >>
    /\ UNCHANGED retrieval

(***************************************************************************)
(* Variant B: OllamaProvider.generate_response and                         *)
(* LocalAIProvider.generate_response                                       *)
(***************************************************************************)

\* self._should_search_courses(query) of the provider p.
should_search_courses(p, q) ==
    IF p = "LocalAIProvider" THEN LocalAI_should_search_courses(q)
    ELSE Ollama_should_search_courses(q)

\* self._extract_search_parameters(query) of the provider p.
extract_search_parameters(p, q) ==
    IF p = "LocalAIProvider" THEN LocalAI_extract_search_parameters(q)
    ELSE Ollama_extract_search_parameters(q)

provider_except(p, e) ==
    IF p = "LocalAIProvider" THEN LocalAI_except(e) ELSE Ollama_except(e)

SYSTEM_PROMPT_B ==
    " You are an AI assistant specialized in course materials and educational content. ... Provide only the direct answer to what was asked."

FoundLabel == "\n\nRelevant course content found:\n"
NotFoundNotice == "\n\nNo relevant course content found for this query."
SearchErrorLabel == "\n\nError searching course content: "

\* A context that shows whatever the tool returned as found content.
context_ofAlwaysFound(search_results) == <<FoundLabel, search_results>>

\* if search_results and search_results.strip(): ... else: ...
context_of(search_results) ==
    IF search_results # "" /\ Len(Strip(Chars(search_results))) > 0
    THEN <<FoundLabel, search_results>>
    ELSE <<NotFoundNotice>>

\* messages: the system prompt with search_context in it, the earlier
\* conversation when there is one, the query.
chat_messages(q, h, ctx) ==
    << [role |-> "system", content |-> PyStr(<<SYSTEM_PROMPT_B>> \o ctx \o <<"\n">>)] >>
    \o (IF Truthy(h)
        THEN << [role |-> "assistant",
                 content |-> PyStr(<<"Previous conversation:\n">> \o h.parts)] >>
        ELSE <<>>)
    \o << [role |-> "user", content |-> PyStr(<<q>>)] >>

\* From the prompt to the model call being issued.
B_IssueCall(q, h, ctx, v) ==
    /\ dispatches' = Returned(dispatches, v)
    /\ search_context' = ctx
    /\ messages' = chat_messages(q, h, ctx)
    /\ api_calls' = Append(api_calls,
            [messages |-> chat_messages(q, h, ctx), system |-> <<>>, tools |-> FALSE])
    /\ pc' = "AwaitingFirstResponse"

\* A faulty start: the search is dispatched whenever there is a registry,
\* whatever the classifier said.
B_StartAlwaysSearches(p, q, h, t, tm) ==
    /\ VariantB(p)
    /\ Enter(p, q, h, t, tm)
    /\ should_search' = should_search_courses(p, q)
    /\ response' = NoResponse
    /\ final_response' = NoResponse
    /\ block_idx' = 0
    /\ tool_results' = <<>>
    /\ IF tm
       THEN /\ dispatches' = << execute_tool("search_course_content",
                                              extract_search_parameters(p, q)) >>
            /\ api_calls' = <<>>
            /\ messages' = <<>>
            /\ search_context' = <<>>
            /\ pc' = "SearchPending"
       ELSE /\ dispatches' = <<>>
            /\ search_context' = <<>>
            /\ messages' = chat_messages(q, h, <<>>)
            /\ api_calls' = << [messages |-> chat_messages(q, h, <<>>),
                                system |-> <<>>, tools |-> FALSE] >>
            /\ pc' = "AwaitingFirstResponse"
    /\ UNCHANGED retrieval

\* A faulty start: the search is dispatched only when tool definitions were
\* passed as well.
B_StartReadsTools(p, q, h, t, tm) ==
    /\ VariantB(p)
    /\ Enter(p, q, h, t, tm)
    /\ should_search' = should_search_courses(p, q)
    /\ response' = NoResponse
    /\ final_response' = NoResponse
    /\ block_idx' = 0
    /\ tool_results' = <<>>
    /\ IF should_search_courses(p, q) /\ tm /\ t
       THEN /\ dispatches' = << execute_tool("search_course_content",
                                              extract_search_parameters(p, q)) >>
            /\ api_calls' = <<>>
            /\ messages' = <<>>
            /\ search_context' = <<>>
            /\ pc' = "SearchPending"
       ELSE /\ dispatches' = <<>>
            /\ search_context' = <<>>
            /\ messages' = chat_messages(q, h, <<>>)
            /\ api_calls' = << [messages |-> chat_messages(q, h, <<>>),
                                system |-> <<>>, tools |-> FALSE] >>
            /\ pc' = "AwaitingFirstResponse"
    /\ UNCHANGED retrieval

\* generate_response up to its first call that leaves the component: the
\* search when the classifier asks for one, the model call otherwise.
B_Start(p, q, h, t, tm) ==
    /\ VariantB(p)
    /\ Enter(p, q, h, t, tm)
    /\ should_search' = should_search_courses(p, q)
    /\ response' = NoResponse
    /\ final_response' = NoResponse
    /\ block_idx' = 0
    /\ tool_results' = <<>>
    /\ IF should_search_courses(p, q) /\ tm
       THEN /\ dispatches' = << execute_tool("search_course_content",
                                              extract_search_parameters(p, q)) >>
            /\ api_calls' = <<>>
            /\ messages' = <<>>
            /\ search_context' = <<>>
            /\ pc' = "SearchPending"
       ELSE /\ dispatches' = <<>>
            /\ search_context' = <<>>
            /\ messages' = chat_messages(q, h, <<>>)
            /\ api_calls' = << [messages |-> chat_messages(q, h, <<>>),
                                system |-> <<>>, tools |-> FALSE] >>
            /\ pc' = "AwaitingFirstResponse"
    /\ UNCHANGED retrieval

\* execute_tool returns text.
B_SearchReturns(text) ==
    /\ VariantB(provider)
    /\ pc = "SearchPending"
    /\ B_IssueCall(query, conversation_history, context_of(text), PyStr(<<text>>))
    /\ UNCHANGED << provider, query, conversation_history, tools, tool_manager,
                    response, final_response, block_idx, tool_results,
                    should_search, failure, result >>
    /\ UNCHANGED retrieval

\* A faulty handler: the exception of the search is not caught.
B_SearchRaisesUncaught(e) ==
    /\ VariantB(provider)
    /\ pc = "SearchPending"
    /\ dispatches' = Returned(dispatches, Raised(e))
    /\ result' = Raised(e)
    /\ failure' = [at |-> "tool", exc |-> e]
    /\ pc' = "Terminal"
    /\ UNCHANGED << provider, query, conversation_history, tools, tool_manager,
                    api_calls, response, final_response, block_idx, messages,
                    tool_results, should_search, search_context >>
    /\ UNCHANGED retrieval

\* A faulty handler: the error of the search is handed to the caller as the
\* answer, and the model is not called.
B_SearchRaisesSurfaces(e) ==
    /\ VariantB(provider)
    /\ pc = "SearchPending"
    /\ dispatches' = Returned(dispatches, Raised(e))
    /\ search_context' = <<SearchErrorLabel, e.msg>>
    /\ result' = PyStr(<<SearchErrorLabel, e.msg>>)
    /\ pc' = "Terminal"
    /\ UNCHANGED << provider, query, conversation_history, tools, tool_manager,
                    api_calls, response, final_response, block_idx, messages,
                    tool_results, should_search, failure >>
    /\ UNCHANGED retrieval

\* execute_tool (or the extraction before it) raises e: except Exception.
B_SearchRaises(e) ==
    /\ VariantB(provider)
    /\ pc = "SearchPending"
    /\ IsInstance(e, "Exception")
    /\ B_IssueCall(query, conversation_history, <<SearchErrorLabel, e.msg>>, Raised(e))
    /\ UNCHANGED << provider, query, conversation_history, tools, tool_manager,
                    response, final_response, block_idx, tool_results,
                    should_search, failure, result >>
    /\ UNCHANGED retrieval

\* response.choices[0].message.content, or the exception the expression raises.
MessageContent(resp) ==
    IF Len(resp.choices) = 0 THEN [ok |-> FALSE, exc |-> IndexError, value |-> None]
    ELSE [ok |-> TRUE, exc |-> NoExc, value |-> resp.choices[1].message.content]

\* The model call returns resp.
B_ModelReturns(resp) ==
    /\ VariantB(provider)
    /\ pc = "AwaitingFirstResponse"
    /\ LET c == MessageContent(resp) IN
       IF c.ok
       THEN /\ result' = c.value
            /\ failure' = NoFailure
       ELSE /\ result' = provider_except(provider, c.exc)
            /\ failure' = [at |-> "first", exc |-> c.exc]
    /\ pc' = "Terminal"
    /\ UNCHANGED << provider, query, conversation_history, tools, tool_manager,
                    api_calls, dispatches, response, final_response, block_idx,
                    messages, tool_results, should_search, search_context >>
    /\ UNCHANGED retrieval

\* The model call raises e.
B_ModelRaises(e) ==
    /\ VariantB(provider)
    /\ pc = "AwaitingFirstResponse"
    /\ result' = provider_except(provider, e)
    /\ failure' = [at |-> "first", exc |-> e]
    /\ pc' = "Terminal"
    /\ UNCHANGED << provider, query, conversation_history, tools, tool_manager,
                    api_calls, dispatches, response, final_response, block_idx,
                    messages, tool_results, should_search, search_context >>
    /\ UNCHANGED retrieval

(***************************************************************************)
(* Specification                                                           *)
(***************************************************************************)

\* A caller starts a query on the provider it holds, when none is under way.
Start ==
    \/ \E p \in {x \in Providers : pc = "Idle" /\ x = provider},
          q \in Queries, h \in Histories, t \in BOOLEAN, tm \in BOOLEAN :
           A_Start(p, q, h, t, tm)
    \/ \E p \in {x \in Providers : pc = "Idle" /\ x = provider},
          q \in Queries, h \in Histories, t \in BOOLEAN, tm \in BOOLEAN :
           B_Start(p, q, h, t, tm)

\* A call that left the component comes back: it returns, or it raises.
Answer ==
    \/ \E resp \in AnthropicResponses : A_FirstReturns(resp)
    \/ \E e \in ModelExceptions : A_FirstRaises(e)
    \/ \E text \in ToolTexts : A_ToolReturns(text)
    \/ \E e \in ToolExceptions : A_ToolRaises(e)
    \/ \E resp \in AnthropicResponses : A_FinalReturns(resp)
    \/ \E e \in ModelExceptions : A_FinalRaises(e)
    \/ \E text \in SearchTexts : B_SearchReturns(text)
    \/ \E e \in ToolExceptions : B_SearchRaises(e)
    \/ \E resp \in OpenAIResponses : B_ModelReturns(resp)
    \/ \E e \in ModelExceptions : B_ModelRaises(e)

\* generate_response has returned to its caller: its locals are gone, and the
\* caller may ask again.
Return ==
    /\ pc = "Terminal"
    /\ pc' = "Idle"
    /\ query' = ""
    /\ conversation_history' = None
    /\ tools' = FALSE
    /\ tool_manager' = FALSE
    /\ api_calls' = <<>>
    /\ dispatches' = <<>>
    /\ response' = NoResponse
    /\ final_response' = NoResponse
    /\ block_idx' = 0
    /\ messages' = <<>>
    /\ tool_results' = <<>>
    /\ should_search' = FALSE
    /\ search_context' = <<>>
    /\ failure' = NoFailure
    /\ result' = Pending
    /\ UNCHANGED provider
    /\ UNCHANGED retrieval

Next == Start \/ Answer \/ Return

Spec == Init /\ [][Next]_vars

\* Every call that left the component returns or fails.
FairSpec == Spec /\ WF_vars(Answer)

(***************************************************************************)
(* Query turns over one shared Tool Registry: the facade's query(), with   *)
(* the dispatches of generate_response in between                          *)
(***************************************************************************)

\* The dispatches one generate_response may issue: the tool_use blocks of a
\* response (Variant A), the one search (Variant B).
DispatchLimit(variant) == IF variant = "A" THEN MaxBlocks ELSE 1

\* What the course name of a call may resolve to.
Resolutions(st, call) ==
    IF "course_name" \in DOMAIN call.input
    THEN resolve_course_title(st, call.input.course_name)
    ELSE {NoTitle}

\* query(): a turn of caller c begins, and generate_response is entered.
Q_Begin(c, v) ==
    /\ turns[c].pc = "Idle"
    /\ turns' = [o \in Clients |->
                    IF o = c
                    THEN [IdleTurn EXCEPT
                            !.pc = "Generating", !.variant = v,
                            !.served = turns[c].served,
                            !.alone = \A x \in Clients \ {c} : turns[x].pc = "Idle"]
                    ELSE [turns[o] EXCEPT !.alone = @ /\ turns[o].pc = "Idle"]]
    /\ last_run' = NoRun
    /\ UNCHANGED << store, last_sources >>
    /\ UNCHANGED buffer
    /\ UNCHANGED orchestrator

\* tool_manager.execute_tool(name, **input) within the turn of caller c.  own
\* follows what the turn's own executions recorded.
Q_Dispatch(c, call, title) ==
    /\ turns[c].pc = "Generating"
    /\ turns[c].calls < DispatchLimit(turns[c].variant)
    /\ turns[c].variant = "B" => call.name = "search_course_content"
    /\ title \in Resolutions(store, call)
    /\ last_sources' =
           ToolManager_execute_tool(store, call.name, call.input, last_sources, title).lists
    /\ turns' = [turns EXCEPT
                    ![c].calls = @ + 1,
                    ![c].searched = @ \/ call.name = "search_course_content",
                    ![c].own = ToolManager_execute_tool(
                                   store, call.name, call.input, @, title).lists]
    /\ last_run' =
           [op |-> "execute", by |-> c, call |-> call, title |-> title,
            before |-> last_sources,
            out |-> ToolManager_execute_tool(
                        store, call.name, call.input, last_sources, title)]
    /\ UNCHANGED store
    /\ UNCHANGED buffer
    /\ UNCHANGED orchestrator

\* generate_response returns its text to query().
Q_Generated(c) ==
    /\ turns[c].pc = "Generating"
    /\ turns' = [turns EXCEPT ![c].pc = "Collecting"]
    /\ last_run' = NoRun
    /\ UNCHANGED << store, last_sources >>
    /\ UNCHANGED buffer
    /\ UNCHANGED orchestrator

\* sources = tool_manager.get_last_sources()
Q_GetSources(c) ==
    /\ turns[c].pc = "Collecting"
    /\ turns' = [turns EXCEPT ![c].pc = "Resetting",
                              ![c].sources = get_last_sources(last_sources)]
    /\ last_run' = [op |-> "get", by |-> c, before |-> last_sources]
    /\ UNCHANGED << store, last_sources >>
    /\ UNCHANGED buffer
    /\ UNCHANGED orchestrator

\* tool_manager.reset_sources()
Q_ResetSources(c) ==
    /\ turns[c].pc = "Resetting"
    /\ last_sources' = reset_sources(last_sources)
    /\ turns' = [turns EXCEPT ![c].pc = "Done"]
    /\ last_run' = [op |-> "reset", by |-> c, before |-> last_sources]
    /\ UNCHANGED store
    /\ UNCHANGED buffer
    /\ UNCHANGED orchestrator

\* query() returns the answer and the citations to caller c.
Q_Return(c) ==
    /\ turns[c].pc = "Done"
    /\ turns' = [turns EXCEPT
                    ![c] = [IdleTurn EXCEPT
                              !.served = turns[c].served \/ turns[c].sources # << >>]]
    /\ last_run' = NoRun
    /\ UNCHANGED << store, last_sources >>
    /\ UNCHANGED buffer
    /\ UNCHANGED orchestrator

\* The store is empty or holds the sample courses; no generate_response of
\* the single-query specification is under way.
RegistryInit ==
    /\ pc = "Idle"
    /\ provider = "AnthropicProvider"
    /\ query = ""
    /\ conversation_history = None
    /\ tools = FALSE
    /\ tool_manager = FALSE
    /\ api_calls = <<>>
    /\ dispatches = <<>>
    /\ response = NoResponse
    /\ final_response = NoResponse
    /\ block_idx = 0
    /\ messages = <<>>
    /\ tool_results = <<>>
    /\ should_search = FALSE
    /\ search_context = <<>>
    /\ failure = NoFailure
    /\ result = Pending
    /\ store \in {EmptyStore, SampleStore}
    /\ RetrievalAtRest

RegistryNext ==
    \E c \in Clients :
        \/ \E v \in {"A", "B"} : Q_Begin(c, v)
        \/ \E call \in ToolCalls : \E title \in SampleStore.catalog \cup {NoTitle} :
               Q_Dispatch(c, call, title)
        \/ Q_Generated(c)
        \/ Q_GetSources(c)
        \/ Q_ResetSources(c)
        \/ Q_Return(c)

\* Any number of callers' turns, interleaved at the calls of the registry.
RegistrySpec == RegistryInit /\ [][RegistryNext]_vars

(***************************************************************************)
(* Query turns over one shared Conversation Buffer: the facade's query()   *)
(* with its session, from the history it composes to the turns it appends  *)
(***************************************************************************)

MAX_HISTORY == 2

\* The sessions one run uses, and the exchanges one session is asked.
MaxSessions == 2
MaxExchanges == 3

\* The session of an id; one that has not been used yet is empty.  made
\* counts the times create_session handed the id out, log keeps every turn
\* ever appended.
SessionOf(sess, session_id) ==
    IF session_id \in DOMAIN sess
    THEN sess[session_id]
    ELSE [history |-> << >>, log |-> << >>, made |-> 0]

\* create_session() -> new unique id
create_sessionRepeats(counter) ==
    [id |-> PyStr(<< "session_", "1" >>), counter |-> counter + 1]

create_session(counter) ==
    [id |-> PyStr(<< "session_", ToString(counter + 1) >>), counter |-> counter + 1]

\* append(session_id, role, text): the turn goes to the end of the session,
\* which is created on first use, and the oldest turns beyond the cap drop.
\* by and n tell the turns apart: the caller whose query made the turn, and
\* its place among all the turns of the session.
add_messageToAll(sess, session_id, role, text, by) ==
    LET turn == [role |-> role, text |-> text, session |-> session_id,
                 by |-> by, n |-> Len(SessionOf(sess, session_id).log) + 1]
    IN  [s \in DOMAIN sess \cup {session_id} |->
            [SessionOf(sess, s) EXCEPT
                !.history = Append(@, turn), !.log = Append(@, turn)]]

add_messageDropsNewest(sess, session_id, role, text, by) ==
    LET old == SessionOf(sess, session_id)
        turn == [role |-> role, text |-> text, session |-> session_id,
                 by |-> by, n |-> Len(old.log) + 1]
        all == Append(old.history, turn)
        kept == IF Len(all) > MAX_HISTORY * 2
                THEN SubSeq(all, 1, MAX_HISTORY * 2)
                ELSE all
    IN  [s \in DOMAIN sess \cup {session_id} |->
            IF s = session_id
            THEN [old EXCEPT !.history = kept, !.log = Append(@, turn)]
            ELSE sess[s]]

add_message(sess, session_id, role, text, by) ==
    LET old == SessionOf(sess, session_id)
        turn == [role |-> role, text |-> text, session |-> session_id,
                 by |-> by, n |-> Len(old.log) + 1]
        all == Append(old.history, turn)
        kept == IF Len(all) > MAX_HISTORY * 2
                THEN SubSeq(all, Len(all) - MAX_HISTORY * 2 + 1, Len(all))
                ELSE all
    IN  [s \in DOMAIN sess \cup {session_id} |->
            IF s = session_id
            THEN [old EXCEPT !.history = kept, !.log = Append(@, turn)]
            ELSE sess[s]]

\* The flattened transcript of some turns, one line a turn.
RECURSIVE Transcript(_)
Transcript(history) ==
    IF history = << >>
    THEN << >>
    ELSE LET line == << history[1].role, ": ", history[1].text >>
         IN  IF Len(history) = 1
             THEN line
             ELSE line \o << "\n" >> \o Transcript(Tail(history))

\* render(session_id) -> text|none
get_conversation_history(sess, session_id) ==
    IF session_id = None \/ session_id \notin DOMAIN sess
    THEN None
    ELSE IF sess[session_id].history = << >>
         THEN None
         ELSE PyStr(Transcript(sess[session_id].history))

\* query(question, session_id) up to the call of the orchestrator: without an
\* id the session is created; the history is composed.
S_Begin(c, session_id, question) ==
    /\ turns[c].pc = "Idle"
    /\ Cardinality((DOMAIN sessions \cup {session_id}) \ {None}) <= MaxSessions
    /\ IF session_id = None
       THEN /\ Cardinality(DOMAIN sessions) < MaxSessions
            /\ session_counter' = create_session(session_counter).counter
            /\ sessions' =
                   [s \in DOMAIN sessions \cup {create_session(session_counter).id} |->
                       IF s = create_session(session_counter).id
                       THEN [history |-> << >>, log |-> << >>,
                             made |-> SessionOf(sessions, s).made + 1]
                       ELSE sessions[s]]
       ELSE /\ Len(SessionOf(sessions, session_id).log) < 2 * MaxExchanges
            /\ UNCHANGED buffer
    /\ LET id == IF session_id = None
                 THEN create_session(session_counter).id
                 ELSE session_id
       IN  /\ turns' = [o \in Clients |->
                           IF o = c
                           THEN [IdleTurn EXCEPT
                                   !.pc = "Generating", !.session = id,
                                   !.question = question,
                                   !.history = get_conversation_history(sessions', id),
                                   !.seen = Len(SessionOf(sessions, id).log),
                                   !.alone =
                                       \A x \in Clients :
                                           turns[x].pc # "Idle" =>
                                               turns[x].session # id]
                           ELSE IF turns[o].pc # "Idle" /\ turns[o].session = id
                                THEN [turns[o] EXCEPT !.alone = FALSE]
                                ELSE turns[o]]
           /\ last_run' = [op |-> "begin", by |-> c, session |-> id,
                           created |-> session_id = None]
    /\ UNCHANGED << store, last_sources >>
    /\ UNCHANGED orchestrator

\* The orchestrator returns its answer; the citations are collected and the
\* lists reset; the question is appended to the session.
S_Answered(c, answer) ==
    /\ turns[c].pc = "Generating"
    /\ turns' = [turns EXCEPT ![c].pc = "Recording", ![c].answer = answer,
                              ![c].sources = get_last_sources(last_sources)]
    /\ last_sources' = reset_sources(last_sources)
    /\ sessions' = add_message(sessions, turns[c].session, "user",
                               turns[c].question, c)
    /\ last_run' = [op |-> "append", by |-> c, session |-> turns[c].session]
    /\ UNCHANGED << store, session_counter >>
    /\ UNCHANGED orchestrator

S_ReturnDropsAnswer(c) ==
    /\ turns[c].pc = "Recording"
    /\ turns' = [turns EXCEPT ![c] = IdleTurn]
    /\ last_run' = [op |-> "return", by |-> c, session |-> turns[c].session,
                    question |-> turns[c].question, answer |-> turns[c].answer,
                    history |-> turns[c].history, seen |-> turns[c].seen,
                    alone |-> turns[c].alone]
    /\ UNCHANGED << store, last_sources, sessions, session_counter >>
    /\ UNCHANGED orchestrator

\* The answer is appended to the session, and query() returns.
S_Return(c) ==
    /\ turns[c].pc = "Recording"
    /\ sessions' = add_message(sessions, turns[c].session, "assistant",
                               turns[c].answer, c)
    /\ turns' = [turns EXCEPT ![c] = IdleTurn]
    /\ last_run' = [op |-> "return", by |-> c, session |-> turns[c].session,
                    question |-> turns[c].question, answer |-> turns[c].answer,
                    history |-> turns[c].history, seen |-> turns[c].seen,
                    alone |-> turns[c].alone]
    /\ UNCHANGED << store, last_sources, session_counter >>
    /\ UNCHANGED orchestrator

\* A query comes without a session id, with an id of the caller's own making
\* or with the id of a session; each caller asks its own question.
SessionNext ==
    \E c \in Clients :
        \/ \E session_id \in {None, PyStr(<< "test-123" >>)} \cup DOMAIN sessions :
               S_Begin(c, session_id, << "What is MCP?", "Tell me more" >>[c])
        \/ S_Answered(c, "Response")
        \/ S_Return(c)

\* Any number of callers' queries, interleaved at the calls of the buffer.
SessionSpec == RegistryInit /\ [][SessionNext]_vars

(***************************************************************************)
(* Properties                                                              *)
(***************************************************************************)

\* The tool_use blocks of a response, in the order they appear.
ToolUses(content) ==
    LET F[k \in 0..Len(content)] ==
            IF k = 0 THEN <<>>
            ELSE IF content[k].type = "tool_use" THEN Append(F[k - 1], content[k])
            ELSE F[k - 1]
    IN  F[Len(content)]

\* The first response asked for tools and a registry was passed.
ToolRoundRequested == response.stop_reason = "tool_use" /\ tool_manager

\* C1 as stated: at the end of a Variant A query the number of model calls is
\* 2 when the first response requests tool use and a registry is supplied,
\* and 1 otherwise.
C1_AsStated ==
    (pc = "Terminal" /\ VariantA(provider)) =>
        Len(api_calls) = (IF ToolRoundRequested THEN 2 ELSE 1)

\* C1, amended: a Variant A query never issues more than 2 model calls; when
\* it ends it has issued exactly 2 if the first response requested tool use,
\* a registry was supplied and every tool dispatch returned (however many tool
\* calls the response holds), and exactly 1 otherwise, which includes the case
\* of a tool dispatch that raised.
C1_ModelCalls ==
    VariantA(provider) =>
        /\ Len(api_calls) <= 2
        /\ pc = "Terminal" =>
              Len(api_calls) =
                  (IF ToolRoundRequested /\ failure.at # "tool" THEN 2 ELSE 1)

\* Two tool calls in the first response, two model calls in all.
C1_Witness ==
    /\ pc = "Terminal"
    /\ VariantA(provider)
    /\ Len(ToolUses(response.content)) = 2
    /\ Len(dispatches) = 2
    /\ Len(api_calls) = 2

\* C2: the follow-up call of Variant A carries no tool definitions; when its
\* response has text in front, that text is the answer, whether or not the
\* response signals tool use again; and once the follow-up call is issued the
\* tools dispatched are those of the first response and no more.
C2_FollowUp ==
    (VariantA(provider) /\ Len(api_calls) = 2) =>
        /\ api_calls[2].tools = FALSE
        /\ pc \in {"AwaitingFinalResponse", "Terminal"}
        /\ Len(dispatches) = Len(ToolUses(response.content))
        /\ (/\ pc = "Terminal"
            /\ Len(final_response.content) > 0
            /\ final_response.content[1].type = "text")
           => result = PyStr(<<final_response.content[1].text>>)

\* A follow-up response that signals tool use again, with text and a tool_use
\* block, after a first call that carried tools.
C2_Witness ==
    /\ pc = "Terminal"
    /\ VariantA(provider)
    /\ api_calls[1].tools = TRUE
    /\ Len(api_calls) = 2
    /\ final_response.stop_reason = "tool_use"
    /\ Len(ToolUses(final_response.content)) = 1
    /\ result = PyStr(<<"MCP is the Model Context Protocol">>)
    /\ Len(dispatches) = 1

\* C3: a Variant B query issues at most one model call, and exactly one by
\* the time it ends: whether no search was made, the search returned text,
\* returned nothing, or raised; that call carries the system prompt, the
\* history and the query, and is never repeated with tool results.
C3_OneCall ==
    VariantB(provider) =>
        /\ Len(api_calls) <= 1
        /\ Len(dispatches) <= 1
        /\ pc = "Terminal" =>
              /\ Len(api_calls) = 1
              /\ \A k \in 1..Len(api_calls[1].messages) :
                    api_calls[1].messages[k].content.type = "str"
              /\ \/ dispatches = <<>> /\ search_context = <<>>
                 \/ /\ Len(dispatches) = 1
                    /\ \/ /\ dispatches[1].returned.type = "str"
                          /\ search_context[1] \in {FoundLabel, NotFoundNotice}
                       \/ /\ dispatches[1].returned.type = "raise"
                          /\ search_context[1] = SearchErrorLabel

\* The search raised, and the one model call was made all the same.
C3_Witness ==
    /\ pc = "Terminal"
    /\ VariantB(provider)
    /\ Len(dispatches) = 1
    /\ dispatches[1].returned.type = "raise"
    /\ Len(api_calls) = 1
    /\ result.type = "str"


\* C4 as stated: whatever the backend, the response's shape or a tool
\* dispatch does, generate_response hands its caller a string.
C4_AlwaysText == pc = "Terminal" => result.type = "str"

\* The kind of backend failure an exception is.
Category(e) ==
    IF IsInstance(e, "AuthenticationError") THEN "authentication"
    ELSE IF IsInstance(e, "RateLimitError") THEN "rate limit"
    ELSE IF IsInstance(e, "APIError") /\ MentionsCredit(e) THEN "credit"
    ELSE "other"

\* The query ended in a model call that raised.
ModelCallFailed ==
    /\ pc = "Terminal"
    /\ failure.at \in {"first", "final"}
    /\ failure.exc \in ModelExceptions

\* The string Variant B returns for an exception e of its model call.
IsConnectionMessage(v, e) ==
    /\ v.type = "str"
    /\ Len(v.parts) >= 2
    /\ v.parts[1] \in {"Error: Failed to connect to Ollama - ",
                       "Error: Failed to connect to LocalAI - "}
    /\ v.parts[2] = e.msg

\* C5 as stated: in both variants an authentication, rate-limit or credit
\* failure of a model call is answered with a fixed string, one that holds
\* nothing of the failure's own text.
C5_AsStated ==
    (ModelCallFailed /\ Category(failure.exc) # "other") =>
        result.type = "str" /\ Len(result.parts) = 1

\* C5, amended: in Variant A an authentication failure, a rate-limit failure
\* and a credit failure of the first or of the follow-up model call are each
\* answered with their own fixed string, the rate-limit one distinct from the
\* credit one; in Variant B every failure of the model call, these three
\* included, is answered with the one connection-error string that quotes the
\* failure's text.
C5_BackendFailures ==
    /\ Str(RateLimitMessage.parts) # Str(CreditsMessage.parts)
    /\ ModelCallFailed =>
         IF VariantA(provider)
         THEN /\ Category(failure.exc) = "authentication" =>
                    result = PyStr(<<"Error: Invalid Anthropic API key. Please check your API key configuration.">>)
              /\ Category(failure.exc) = "rate limit" =>
                    result = PyStr(<<"Error: API rate limit exceeded. Please try again in a moment.">>)
              /\ Category(failure.exc) = "credit" =>
                    result = PyStr(<<"Error: Insufficient Anthropic API credits. Please add credits to your Anthropic account to continue using the service.">>)
         ELSE IsConnectionMessage(result, failure.exc)

\* The follow-up call of Variant A hit the rate limit, with a text that
\* speaks of the credit balance.
C5_Witness ==
    /\ ModelCallFailed
    /\ VariantA(provider)
    /\ failure.at = "final"
    /\ failure.exc.cls = "RateLimitError"
    /\ MentionsCredit(failure.exc)
    /\ result = RateLimitMessage

\* C6 as stated: in both variants an exception that is no authentication,
\* rate-limit or credit failure is answered with the generic "unexpected
\* error" string.
C6_AsStated ==
    (pc = "Terminal" /\ failure.at # "none" /\ Category(failure.exc) = "other") =>
        /\ result.type = "str"
        /\ result.parts[1] = "Error: An unexpected error occurred - "

\* C6, amended: in Variant A a backend API error whose text does not mention
\* the credit balance is answered with "Error: API request failed - " and its
\* text, and every other exception that is no authentication, rate-limit or
\* credit failure with "Error: An unexpected error occurred - " and its text;
\* in Variant B every exception of the model call is answered with the
\* connection-error string.
C6_OtherFailures ==
    (pc = "Terminal" /\ failure.at # "none" /\ Category(failure.exc) = "other") =>
        IF VariantA(provider)
        THEN result = PyStr(<< (IF IsInstance(failure.exc, "APIError")
                                THEN "Error: API request failed - "
                                ELSE "Error: An unexpected error occurred - "),
                               failure.exc.msg >>)
        ELSE IsConnectionMessage(result, failure.exc)

\* A backend API error of Variant A that does not mention the credit balance.
C6_Witness ==
    /\ pc = "Terminal"
    /\ VariantA(provider)
    /\ failure.exc.cls = "APIError"
    /\ ~MentionsCredit(failure.exc)
    /\ result.parts[1] = "Error: API request failed - "

\* C7: a model call that failed is the last model call of its query: the
\* query is over, a failure of the first call leaves one call and, in Variant
\* A, no tool dispatched; a second call is only ever made after a first one
\* that returned asking for tools.
C7_NoRetry ==
    /\ failure.at \in {"first", "final"} =>
         /\ pc = "Terminal"
         /\ Len(api_calls) = (IF failure.at = "first" THEN 1 ELSE 2)
         /\ (VariantA(provider) /\ failure.at = "first") => dispatches = <<>>
         /\ VariantB(provider) => failure.at = "first"
    /\ Len(api_calls) = 2 => response.stop_reason = "tool_use"

\* The first call of Variant A failed although tools and a registry were
\* there.
C7_Witness ==
    /\ pc = "Terminal"
    /\ VariantA(provider)
    /\ tools
    /\ tool_manager
    /\ failure.at = "first"
    /\ failure.exc \in ModelExceptions
    /\ Len(api_calls) = 1
    /\ dispatches = <<>>

\* C8: in Variant A the tool calls are dispatched in the order of the
\* tool_use blocks of the first response, each only after the one before it
\* has returned; and when the response holds at least one, the follow-up call
\* is sent the user's query, the model's tool-request message and one message
\* with all the results, the i-th of them carrying the id of the i-th tool_use
\* block and the text its dispatch returned.
C8_ToolRound ==
    VariantA(provider) =>
        LET T == ToolUses(response.content) IN
        /\ Len(dispatches) <= Len(T)
        /\ \A i \in 1..Len(dispatches) :
              /\ dispatches[i].name = T[i].name
              /\ dispatches[i].input = T[i].input
              /\ i < Len(dispatches) => dispatches[i].returned.type = "str"
        /\ Len(api_calls) = 2 => Len(dispatches) = Len(T)
        /\ (Len(api_calls) = 2 /\ Len(T) >= 1) =>
              api_calls[2].messages =
                  << [role |-> "user", content |-> PyStr(<<query>>)],
                     [role |-> "assistant",
                      content |-> [type |-> "blocks", blocks |-> response.content]],
                     [role |-> "user",
                      content |->
                        [type |-> "tool_results",
                         results |->
                           [i \in 1..Len(T) |->
                              [type |-> "tool_result",
                               tool_use_id |-> T[i].id,
                               content |-> dispatches[i].returned.parts[1]]]]] >>

\* Two different tools were asked for, returned different texts, and the
\* follow-up call was issued.
C8_Witness ==
    /\ VariantA(provider)
    /\ Len(api_calls) = 2
    /\ Len(dispatches) = 2
    /\ dispatches[1].name # dispatches[2].name
    /\ dispatches[1].returned # dispatches[2].returned
    /\ Len(api_calls[2].messages) = 3

\* A query is under way: a call that left the component has not come back.
InFlight ==
    pc \in {"SearchPending", "AwaitingFirstResponse", "ToolRoundPending",
            "AwaitingFinalResponse"}

\* The steps of the chain
\* AwaitingFirstResponse -> (Terminal | ToolRoundPending) -> AwaitingFinalResponse -> Terminal,
\* with those that lead into it and out of it. A tool round with nothing to
\* dispatch (a response that stops for tool use and holds no tool_use block)
\* is over as it begins.
ChainStep ==
    \/ pc' = pc
    \/ pc = "Idle" /\ pc' \in {"SearchPending", "AwaitingFirstResponse"}
    \/ pc = "SearchPending" /\ pc' = "AwaitingFirstResponse"
    \/ pc = "AwaitingFirstResponse" /\ pc' \in {"Terminal", "ToolRoundPending"}
    \/ /\ pc = "AwaitingFirstResponse"
       /\ pc' = "AwaitingFinalResponse"
       /\ ToolUses(response'.content) = <<>>
    \/ pc = "ToolRoundPending" /\ pc' = "AwaitingFinalResponse"
    \/ pc = "AwaitingFinalResponse" /\ pc' = "Terminal"
    \/ pc = "Terminal" /\ pc' = "Idle"

\* C9 as stated: a query moves only along the chain.
C9_AsStated == [][ChainStep]_vars

\* C9, amended: provided every call that left the component returns or fails,
\* every query reaches Terminal; it moves only along the chain, or from
\* ToolRoundPending straight to Terminal when a tool dispatch raises; Variant
\* B makes its search before its model call and is never in ToolRoundPending
\* or AwaitingFinalResponse.
C9_Terminates ==
    /\ [][ChainStep \/ (pc = "ToolRoundPending" /\ pc' = "Terminal"
                          /\ failure'.at = "tool")]_vars
    /\ [](VariantB(provider) =>
            /\ pc \notin {"ToolRoundPending", "AwaitingFinalResponse"}
            /\ pc = "SearchPending" => api_calls = <<>>)
    /\ [](VariantA(provider) => pc # "SearchPending")
    /\ (InFlight ~> pc = "Terminal")

\* A Variant A query that ended in the tool round, and a Variant B one is
\* covered by the same formula.
C9_Witness ==
    /\ pc = "Terminal"
    /\ VariantA(provider)
    /\ failure.at = "tool"
    /\ Len(api_calls) = 1

\* The vocabularies of the classifier, in lower case.
TriggerTerms ==
    {"course", "lesson", "tutorial", "module", "mcp", "claude", "anthropic"}

EducationalPatterns ==
    {"how to", "what is", "what are", "explain", "learn", "teach", "show me",
     "tell me about", "describe"}

TechnicalKeywords ==
    {"api", "programming", "code", "software", "development", "python",
     "javascript", "database", "ml", "ai"}

\* The words of a text: its longest runs of letters, digits and underscores.
WordsOf(text) ==
    {SubSeq(text, p[1], p[2]) :
        p \in {p \in (1..Len(text)) \X (1..Len(text)) :
                  /\ p[1] <= p[2]
                  /\ \A k \in p[1]..p[2] : IsWordChar(text[k])
                  /\ ~WordAt(text, p[1] - 1)
                  /\ ~WordAt(text, p[2] + 1)}}

\* Whether piece occurs somewhere in text.
Contains(text, piece) ==
    \E before \in 0..Len(text) :
        /\ before + Len(piece) <= Len(text)
        /\ \A k \in 1..Len(piece) : text[before + k] = piece[k]

\* A text in lower case is retrieval-worthy when one of its words is a
\* trigger term, or when it contains an educational pattern and a technical
\* keyword.
WorthyText(text) ==
    \/ \E w \in WordsOf(text) : Str(w) \in TriggerTerms
    \/ /\ \E e \in EducationalPatterns : Contains(text, Chars(e))
       /\ \E t \in TechnicalKeywords : Contains(text, Chars(t))

\* Letter case plays no part.
RetrievalWorthy(q) == WorthyText(Lower(Chars(q)))

Names(text, vocabulary) == \E w \in WordsOf(text) : Str(w) \in vocabulary

\* C11: the classifier of either Variant B provider finds a query that names
\* no trigger term and no technical keyword not retrieval-worthy, whatever its
\* phrasing; "What is the capital of France?", "Tell me a joke" and
\* "What's the weather?" are not retrieval-worthy.
C11_TriviaNotRetrieved ==
    (VariantB(provider) /\ pc \in {"SearchPending", "AwaitingFirstResponse"}) =>
        /\ (~Names(Lower(Chars(query)), TriggerTerms)
            /\ ~Names(Lower(Chars(query)), TechnicalKeywords)) => ~should_search
        /\ query \in {"What is the capital of France?", "Tell me a joke",
                      "What's the weather?"} => ~should_search

\* The arguments of the search a Variant B query is waiting for.
SearchParams == dispatches[1].input

\* What a digit stands for.
DigitValue(c) == CHOOSE v \in 0..9 : ToString(v) = c

\* The number written in decimal at positions d..e of a text.
Decimal(text, d, e) ==
    LET Sum[k \in (d - 1)..e] ==
            IF k = d - 1 THEN 0 ELSE 10 * Sum[k - 1] + DigitValue(text[k])
    IN  Sum[e]

\* A text in lower case, character by character.
LowerText(q) == SubSeq(Lower(Chars(q)), 1, Len(q))

\* A phrase "lesson <N>" of a text in lower case: the word lesson at i, white
\* space up to d, and the whole number token d..e.
IsLessonPhrase(text, i, d, e) ==
    /\ \A k \in (i + 6)..(d - 1) : IsSpace(text[k])
    /\ \A k \in d..e : IsDigit(text[k])
    /\ ~WordAt(text, e + 1)

\* Where the lesson phrases of a text start.
LessonPhrases(text) ==
    {i \in 1..(Len(text) - 7) :
        /\ SubSeq(text, i, i + 5) = <<"l", "e", "s", "s", "o", "n">>
        /\ ~WordAt(text, i - 1)
        /\ \E d \in (i + 7)..Len(text) : \E e \in d..Len(text) :
               IsLessonPhrase(text, i, d, e)}

\* The number of the phrase that starts at i.
LessonOf(text, i) ==
    LET t == CHOOSE t \in ((i + 7)..Len(text)) \X ((i + 7)..Len(text)) :
                 t[1] <= t[2] /\ IsLessonPhrase(text, i, t[1], t[2])
    IN  Decimal(text, t[1], t[2])

\* Whether the parameters have the lesson of a text whose phrases start at
\* starts: no key without a phrase, the number of the first phrase otherwise.
HasLessonOf(params, text, starts) ==
    IF starts = {} THEN "lesson_number" \notin DOMAIN params
    ELSE /\ "lesson_number" \in DOMAIN params
         /\ params.lesson_number \in Nat
         /\ params.lesson_number = LessonOf(text, MinOrZero(starts))

\* C12: the parameters the Variant B extractor hands to the search have the
\* key lesson_number exactly when the query has a phrase "lesson <N>",
\* whatever the case, N a whole number token; the value is the integer N of
\* the first such phrase, and without a phrase there is no key at all.
C12_LessonNumber ==
    (VariantB(provider) /\ pc = "SearchPending") =>
        HasLessonOf(SearchParams, LowerText(query), LessonPhrases(LowerText(query)))

\* A search was dispatched for a query whose second lesson phrase is the
\* first with a whole number.
C12_Witness ==
    /\ VariantB(provider)
    /\ pc = "SearchPending"
    /\ query = "lesson 2a or lesson 3"
    /\ SearchParams.lesson_number = 3

\* A text as it was typed, character by character.
RawText(q) == SubSeq(Chars(q), 1, Len(q))

\* The keywords that introduce a course phrase, in the order of their rank.
PhraseKeywords == << "in", "from", "about", "of" >>

\* Whether positions a..(b - 1) of a text are white space, one at least.
IsGap(text, a, b) == a < b /\ \A k \in a..(b - 1) : IsSpace(text[k])

\* Whether what lies between a keyword that ends before a and a name that
\* starts at c is white space, with the article "the" (article = 1) or
\* without it (article = 0).
LeadsIn(low, a, c, article) ==
    IF article = 0 THEN IsGap(low, a, c)
    ELSE \E t \in (a + 1)..(c - 4) :
            /\ IsGap(low, a, t)
            /\ SubSeq(low, t, t + 2) = <<"t", "h", "e">>
            /\ IsGap(low, t + 3, c)

\* Whether white space and the word "course" come at position p.
CourseComes(low, p) ==
    \E w \in (p + 1)..(Len(low) - 5) :
        /\ IsGap(low, p, w)
        /\ SubSeq(low, w, w + 5) = <<"c", "o", "u", "r", "s", "e">>

\* A reading of a text in lower case as "kw [the] X course", the keyword at
\* i and X the n characters from c, none of them a question mark.
IsCoursePhrase(low, kw, i, r) ==
    /\ LeadsIn(low, i + Len(kw), r.c, r.article)
    /\ r.c + r.n - 1 <= Len(low)
    /\ \A k \in r.c..(r.c + r.n - 1) : low[k] # "?"
    /\ CourseComes(low, r.c + r.n)

Readings(low, kw, i) ==
    UNION { {r \in [article : {a}, c : {c}, n : 1..(Len(low) - c + 1)] :
                IsCoursePhrase(low, kw, i, r)} :
            a \in {0, 1}, c \in (i + Len(kw) + 1)..Len(low) }

\* Where the phrases of a keyword start.
PhraseStarts(low, kw) ==
    {i \in 1..Len(low) :
        /\ i + Len(kw) - 1 <= Len(low)
        /\ SubSeq(low, i, i + Len(kw) - 1) = Chars(kw)
        /\ Readings(low, kw, i) # {}}

\* The rank of the first keyword that has a phrase, 0 when none has.
FirstKeyword(low) ==
    MinOrZero({k \in 1..Len(PhraseKeywords) : PhraseStarts(low, PhraseKeywords[k]) # {}})

\* Of the readings of one phrase, the one that leaves the article out of X,
\* starts X as late as it can and ends it as early as it can.
Preferred(rs) ==
    CHOOSE r \in rs : \A o \in rs :
        \/ r.article > o.article
        \/ r.article = o.article /\ r.c > o.c
        \/ r.article = o.article /\ r.c = o.c /\ r.n <= o.n

NameRead(raw, r) == SubSeq(raw, r.c, r.c + r.n - 1)

\* X of the first phrase of a keyword.
NameAfter(raw, low, kw) ==
    NameRead(raw, Preferred(Readings(low, kw, MinOrZero(PhraseStarts(low, kw)))))

\* A text without the white space around it.
Trimmed(x) ==
    IF \A k \in 1..Len(x) : IsSpace(x[k]) THEN << >>
    ELSE SubSeq(x, CHOOSE a \in 1..Len(x) :
                       ~IsSpace(x[a]) /\ \A k \in 1..(a - 1) : IsSpace(x[k]),
                   CHOOSE b \in 1..Len(x) :
                       ~IsSpace(x[b]) /\ \A k \in (b + 1)..Len(x) : IsSpace(x[k]))

\* Whether a trimmed text ends with the word cop after white space.
EndsWithWord(t, cop) ==
    /\ Len(t) > Len(cop)
    /\ Lower(SubSeq(t, Len(t) - Len(cop) + 1, Len(t))) = Chars(cop)
    /\ IsSpace(t[Len(t) - Len(cop)])

\* A trimmed text without the copula it ends with, when it ends with one.
WithoutCopula(t) ==
    IF \E cop \in {"is", "are", "was", "were"} : EndsWithWord(t, cop)
    THEN LET cop == CHOOSE cop \in {"is", "are", "was", "were"} : EndsWithWord(t, cop)
         IN  Trimmed(SubSeq(t, 1, Len(t) - Len(cop)))
    ELSE t

\* Whether "building with <word>" is in a text in lower case.
BuildingWith(low) ==
    \E i \in 1..Len(low) : \E j \in (i + 9)..Len(low) : \E k \in (j + 5)..Len(low) :
        /\ ~WordAt(low, i - 1)
        /\ SubSeq(low, i, i + 7) = Chars("building")
        /\ IsGap(low, i + 8, j)
        /\ SubSeq(low, j, j + 3) = Chars("with")
        /\ IsGap(low, j + 4, k)
        /\ WordAt(low, k)

\* Whether a text names a known course: a course-identifier token.
NamesIdentifier(low) ==
    Names(low, {"mcp", "anthropic", "claude"}) \/ BuildingWith(low)

\* Whether a name is a course-identifier token taken from the text.
IsIdentifierOf(name, raw) ==
    /\ Contains(raw, name)
    /\ \/ Str(Lower(name)) \in {"mcp", "introduction to mcp", "anthropic", "claude"}
       \/ Len(name) > 8 /\ Lower(SubSeq(name, 1, 8)) = Chars("building")

\* Whether the parameters have the course of a text whose first keyword with
\* a phrase is the k-th.
HasCourseOf(params, raw, low, k) ==
    IF k > 0
    THEN /\ "course_name" \in DOMAIN params
         /\ params.course_name
                = Str(WithoutCopula(Trimmed(NameAfter(raw, low, PhraseKeywords[k]))))
    ELSE IF NamesIdentifier(low)
         THEN /\ "course_name" \in DOMAIN params
              /\ IsIdentifierOf(Chars(params.course_name), raw)
         ELSE "course_name" \notin DOMAIN params

\* C13: when the query has a phrase "in|from|about|of [the] X course", the
\* Variant B extractor sets course_name to X, trimmed and without one
\* trailing is/are/was/were, of the first of the keywords in, from, about, of
\* that has a phrase; "What is MCP in the Introduction to MCP course?" yields
\* "Introduction to MCP".  Without a phrase course_name is a known course
\* identifier found in the query, and it is absent when there is none.
C13_CourseName ==
    (VariantB(provider) /\ pc = "SearchPending") =>
        /\ HasCourseOf(SearchParams, RawText(query), LowerText(query),
                       FirstKeyword(LowerText(query)))
        /\ query = "What is MCP in the Introduction to MCP course?" =>
               SearchParams.course_name = "Introduction to MCP"

\* A search was dispatched for a query whose "of" phrase comes before its
\* "from" phrase.
C13_Witness ==
    /\ VariantB(provider)
    /\ pc = "SearchPending"
    /\ query = "of the Claude course from the MCP course"
    /\ SearchParams.course_name = "MCP"

\* Whether a text names a course, by a course phrase or by a known identifier.
CourseFound(low) == FirstKeyword(low) > 0 \/ NamesIdentifier(low)

\* The parameters a query is to be searched with: the query, and the lesson
\* and the course when they were found.
ParamsFound(low) ==
    {"query"}
    \cup (IF LessonPhrases(low) # {} THEN {"lesson_number"} ELSE {})
    \cup (IF CourseFound(low) THEN {"course_name"} ELSE {})

\* C14: whatever the query, the Variant B extractor returns parameters that
\* hold the raw query and, of course_name and lesson_number, those that were
\* found and no others, and the content search is dispatched with exactly
\* these; a query that names a lesson and no course is dispatched with
\* lesson_number and without course_name.
C14_Degrades ==
    /\ (VariantB(provider) /\ pc = "SearchPending") =>
           /\ Len(dispatches) = 1
           /\ dispatches[1].name = "search_course_content"
           /\ SearchParams.query = query
           /\ DOMAIN SearchParams = ParamsFound(LowerText(query))
           /\ query = "Summarize lesson 5" =>
                  /\ DOMAIN SearchParams = {"query", "lesson_number"}
                  /\ SearchParams.lesson_number = 5
    /\ (VariantB(provider) /\ pc = "AwaitingFirstResponse"
            /\ should_search /\ tool_manager) =>
           /\ Len(dispatches) = 1
           /\ dispatches[1].returned # Pending

\* A query that names a lesson and no course was dispatched.
C14_Witness ==
    /\ VariantB(provider)
    /\ pc = "AwaitingFirstResponse"
    /\ query = "Summarize lesson 5"
    /\ Len(dispatches) = 1
    /\ DOMAIN SearchParams = {"query", "lesson_number"}

\* C15: a Variant B query dispatches at most one tool, the content search,
\* and only when the classifier said yes and a registry was passed; the
\* dispatch is over before the one model call is issued, and when the
\* classifier said no nothing is dispatched.
C15_OneDispatch ==
    (VariantB(provider) /\ pc # "Idle") =>
        /\ Len(dispatches) <= 1
        /\ \A k \in 1..Len(dispatches) : dispatches[k].name = "search_course_content"
        /\ Len(dispatches) = (IF should_search /\ tool_manager THEN 1 ELSE 0)
        /\ ~should_search => dispatches = <<>>
        /\ pc = "SearchPending" =>
               api_calls = <<>> /\ dispatches[1].returned = Pending
        /\ api_calls # <<>> =>
               \A k \in 1..Len(dispatches) : dispatches[k].returned # Pending

\* A query was answered after its search.
C15_Witness ==
    /\ VariantB(provider)
    /\ pc = "Terminal"
    /\ should_search
    /\ Len(dispatches) = 1
    /\ Len(api_calls) = 1

\* Whether the search of a Variant B query returned nothing (no text, or the
\* tool's text for a search without results) or failed.
SearchCameToNothing ==
    /\ Len(dispatches) = 1
    /\ \/ dispatches[1].returned.type = "raise"
       \/ /\ dispatches[1].returned.type = "str"
          /\ \/ ~Truthy(dispatches[1].returned)
             \/ StrIn(Chars("No relevant content found"),
                      Chars(dispatches[1].returned.parts[1]))

\* What the model can answer: the content of the first choice of a response.
ModelAnswers ==
    {resp.choices[1].message.content :
        resp \in {r \in OpenAIResponses : Len(r.choices) > 0}}

\* Whether a value holds a piece of text among its parts.
Holds(v, piece) == \E k \in 1..Len(v.parts) : v.parts[k] = piece

EmptyStoreCitesNothing ==
    store = EmptyStore =>
        /\ get_last_sources(last_sources) = << >>
        /\ \A c \in Clients : turns[c].sources = << >>

\* The turn of caller c has collected its citations and reset the registry.
Collected(c) == turns[c].pc = "Done"

\* The citations the own tool executions of c's turn produced.
OwnCitations(c) == get_last_sources(turns[c].own)

\* C17: under any interleaving of two queries sharing one Tool Registry,
\* the citations returned to a query are exactly those its own tool
\* executions produced.
C17_CitationsAreOwn ==
    \A c \in Clients : Collected(c) => turns[c].sources = OwnCitations(c)

\* The registry's last operation was a content search that returned blocks.
SearchSucceeded ==
    /\ last_run.op = "execute"
    /\ last_run.call.name = "search_course_content"
    /\ last_run.out.text.kind = "blocks"

\* The citation lists are as given: one citation for each block of the
\* text, in the blocks' order, and nothing else.
CitesBlocks(cites, blocks) ==
    /\ Len(cites) = Len(blocks)
    /\ \A i \in 1..Len(blocks) : cites[i] = blocks[i].label

\* The turn of caller c ran from its beginning to its collection with no
\* other turn under way, and executed no content search.
QuietTurn(c) == Collected(c) /\ turns[c].alone /\ ~turns[c].searched

\* C18: after a successful content search the recorded citations are one
\* for each formatted block, in order, whatever the list held before;
\* resetting after collection leaves every tool's list empty; and in a
\* sequence of turns a turn that runs no search returns no citations.
C18_CitationCount ==
    /\ SearchSucceeded =>
           CitesBlocks(last_sources["search_course_content"], last_run.out.text.parts)
    /\ last_run.op = "reset" =>
           \A name \in DOMAIN last_sources : last_sources[name] = << >>
    /\ \A c \in Clients : QuietTurn(c) => turns[c].sources = << >>

\* A turn that ran a tool but no search has collected, after an earlier turn
\* of some caller was returned citations.
C18_Witness ==
    \E c \in Clients :
        /\ QuietTurn(c)
        /\ turns[c].calls > 0
        /\ last_run.op = "reset"
        /\ \E x \in Clients : turns[x].served

\* The registry's last operation was a content search whose course name did
\* not resolve to a course.
ResolutionFailed ==
    /\ last_run.op = "execute"
    /\ last_run.call.name = "search_course_content"
    /\ "course_name" \in DOMAIN last_run.call.input
    /\ last_run.title = NoTitle

\* The text is an error string, returned and not raised, with the name in it.
IsErrorNaming(text, name) ==
    /\ text.kind = "error"
    /\ ~text.raised
    /\ \E i \in 1..Len(text.parts) : text.parts[i] = name

UnknownToolDispatched ==
    /\ last_run.op = "execute"
    /\ last_run.call.name \notin {"search_course_content", "get_course_outline"}

\* C20: a dispatch by a name that is not registered returns the text
\* "Tool '<name>' not found", does not raise, runs no tool and leaves every
\* tool's citation list as it was.
C20_UnknownTool ==
    UnknownToolDispatched =>
        /\ ~last_run.out.text.raised
        /\ last_run.out.text.parts = <<"Tool '", last_run.call.name, "' not found">>
        /\ ~last_run.out.searched
        /\ last_sources = last_run.before

\* A name that is not registered was dispatched while the search tool held
\* the citations of an earlier execution.
C20_Witness ==
    /\ UnknownToolDispatched
    /\ last_run.call.name = "nonexistent_tool"
    /\ last_run.before["search_course_content"] # << >>

\* The places in the store's return order of the fragments whose text the
\* blocks show.
PlaceOf(st, text) == CHOOSE n \in 1..Len(st.fragments) : st.fragments[n].content = text

\* More fragments than K pass the filter of the registry's last search.
MoreThanKPass ==
    Cardinality({n \in 1..Len(store.fragments) :
                    PassesFilter(store.fragments[n], last_run.title,
                                 LessonArg(last_run.call.input))}) > MAX_RESULTS

\* The blocks come in non-decreasing distance, and those of equal distance
\* in the store's return order.
InStoreOrder(st, blocks) ==
    \A i, j \in 1..Len(blocks) :
        i < j =>
            /\ st.distances[PlaceOf(st, blocks[i].text)]
                   <= st.distances[PlaceOf(st, blocks[j].text)]
            /\ PlaceOf(st, blocks[i].text) < PlaceOf(st, blocks[j].text)

\* C21: a content search returns at most K blocks, in the order of
\* non-decreasing distance, fragments of equal distance in the order the
\* store returned them.
C21_AtMostK ==
    SearchSucceeded =>
        /\ Len(last_run.out.text.parts) <= MAX_RESULTS
        /\ InStoreOrder(store, last_run.out.text.parts)

\* A search that more than K fragments pass returned K blocks, two of them
\* of equal distance.
C21_Witness ==
    /\ SearchSucceeded
    /\ MoreThanKPass
    /\ Len(last_run.out.text.parts) = MAX_RESULTS
    /\ \E i, j \in 1..Len(last_run.out.text.parts) :
           /\ i < j
           /\ store.distances[PlaceOf(store, last_run.out.text.parts[i].text)]
                  = store.distances[PlaceOf(store, last_run.out.text.parts[j].text)]

\* The one model call of a Variant B query has been issued.
PromptSent == VariantB(provider) /\ Len(api_calls) = 1 /\ pc # "Idle"

\* Retrieval was triggered: the classifier said yes and a registry was passed.
Triggered == should_search /\ tool_manager

\* Which of the three pieces the system prompt of the model call holds: the
\* label of found content, the no-content notice, the search-error label.
PromptPieces ==
    {piece \in {FoundLabel, NotFoundNotice, SearchErrorLabel} :
        Holds(api_calls[1].messages[1].content, piece)}

\* The search returned no text at all.
ReturnedBlank ==
    dispatches[1].returned.type = "str" /\ ~Truthy(dispatches[1].returned)

\* C26 as stated: when retrieval is triggered the system prompt holds the
\* labeled block or the no-content notice, the notice when the search
\* produced nothing; when it is not triggered, neither.
C26_AsStated ==
    PromptSent =>
        /\ Triggered => PromptPieces \cap {FoundLabel, NotFoundNotice} # {}
        /\ (Triggered /\ ReturnedBlank) => NotFoundNotice \in PromptPieces
        /\ ~Triggered => PromptPieces = {}

\* C26: when retrieval is triggered the system prompt holds exactly one of
\* three: the labeled block with the tool's text when the tool returned a
\* text that is not blank, the no-content notice when it returned a blank
\* one, the search-error line with the exception's text when it raised;
\* when retrieval is not triggered the prompt holds none of them.
C26_Prompt ==
    PromptSent =>
        /\ Triggered =>
               /\ Len(dispatches) = 1
               /\ dispatches[1].returned.type = "raise" =>
                      /\ PromptPieces = {SearchErrorLabel}
                      /\ Holds(api_calls[1].messages[1].content,
                               dispatches[1].returned.parts[2])
               /\ ReturnedBlank => PromptPieces = {NotFoundNotice}
               /\ (dispatches[1].returned.type = "str" /\ ~ReturnedBlank) =>
                      /\ PromptPieces = {FoundLabel}
                      /\ Holds(api_calls[1].messages[1].content,
                               dispatches[1].returned.parts[1])
        /\ ~Triggered => (PromptPieces = {} /\ dispatches = << >>)

\* The tool's own text for a search without results went into the prompt as
\* found content.
C26_Witness ==
    /\ PromptSent
    /\ Triggered
    /\ PromptPieces = {FoundLabel}
    /\ Holds(api_calls[1].messages[1].content,
             "No relevant content found in course 'MCP'.")

\* The messages of a Variant B model call, from the query, the history and
\* what the search came to: the system prompt, the earlier conversation when
\* there is one, the query.
MessagesFrom(q, h, ctx) ==
    << [role |-> "system", content |-> PyStr(<<SYSTEM_PROMPT_B>> \o ctx \o <<"\n">>)] >>
    \o (IF h.type = "str" /\ h.parts # <<"">> /\ h.parts # << >>
        THEN << [role |-> "assistant",
                 content |-> PyStr(<<"Previous conversation:\n">> \o h.parts)] >>
        ELSE << >>)
    \o << [role |-> "user", content |-> PyStr(<<q>>)] >>

\* What the search of a Variant B query came to, from what the dispatch
\* returned.
ContextFrom(returned) ==
    IF returned.type = "raise" THEN <<SearchErrorLabel, returned.parts[2]>>
    ELSE IF returned.parts[1] = "" THEN <<NotFoundNotice>>
    ELSE <<FoundLabel, returned.parts[1]>>

\* C27: what a Variant B query dispatches, sends and returns is decided by
\* the provider, the query, the history, the registry and the answers of
\* the search and of the backend; the tools argument has no part in it, and
\* no tool definition is sent to the model.
C27_IgnoresTools ==
    (VariantB(provider) /\ pc # "Idle") =>
        /\ Len(dispatches) = (IF should_search /\ tool_manager THEN 1 ELSE 0)
        /\ pc = "SearchPending" =>
               /\ should_search = RetrievalWorthy(query)
               /\ dispatches[1].name = "search_course_content"
               /\ dispatches[1].input = ExtractSearchParameters(query)
               /\ api_calls = << >>
        /\ pc # "SearchPending" =>
               /\ Len(api_calls) = 1
               /\ api_calls[1].tools = FALSE
               /\ api_calls[1].messages =
                      MessagesFrom(query, conversation_history,
                                   IF dispatches = << >> THEN << >>
                                   ELSE ContextFrom(dispatches[1].returned))
        /\ (pc = "Terminal" /\ failure.at = "none") => result \in ModelAnswers
        /\ (pc = "Terminal" /\ failure.at # "none") =>
               result = provider_except(provider, failure.exc)

\* A query that was given tool definitions searched, and was answered by the
\* model.
C27_Witness ==
    /\ VariantB(provider)
    /\ tools
    /\ pc = "Terminal"
    /\ Len(dispatches) = 1
    /\ dispatches[1].returned.type = "str"
    /\ result = PyStr(<<"MCP is a protocol">>)

\* A dispatch of the query raised.
SomeDispatchRaised ==
    \E k \in 1..Len(dispatches) : dispatches[k].returned.type = "raise"

\* C28: when a tool dispatch of a Variant A query raises, the query is over
\* with an error string for a result, the raising dispatch is the last one
\* made, and the first model call stays the only one.
C28_ToolRaises ==
    (VariantA(provider) /\ SomeDispatchRaised) =>
        /\ pc = "Terminal"
        /\ failure.at = "tool"
        /\ result.type = "str"
        /\ result.parts[1] \in {"Error: An unexpected error occurred - ",
                                "Error: API request failed - "}
        /\ Holds(result, failure.exc.msg)
        /\ dispatches[Len(dispatches)].returned.type = "raise"
        /\ \A k \in 1..(Len(dispatches) - 1) : dispatches[k].returned.type = "str"
        /\ Len(api_calls) = 1

\* The first of two requested tool calls raised: the second was never
\* dispatched.
C28_Witness ==
    /\ VariantA(provider)
    /\ SomeDispatchRaised
    /\ Len(ToolUses(response.content)) = 2
    /\ Len(dispatches) = 1
    /\ pc = "Terminal"

\* The first response of a Variant A query asked for tools, and the query
\* had been given no registry.
ToolUseWithoutRegistry ==
    VariantA(provider) /\ response.stop_reason = "tool_use" /\ ~tool_manager

\* C29: when the first response of a Variant A query signals tool use and no
\* registry was supplied, nothing is dispatched, no second model call is
\* made, and the query ends with a string: the text of the first block, or
\* an error string when there is no first block or it has no text.
C29_NoRegistry ==
    ToolUseWithoutRegistry =>
        /\ pc = "Terminal"
        /\ dispatches = << >>
        /\ Len(api_calls) = 1
        /\ result.type = "str"
        /\ IF Len(response.content) > 0 /\ response.content[1].type = "text"
           THEN result = PyStr(<<response.content[1].text>>)
           ELSE /\ result.parts[1] = "Error: An unexpected error occurred - "
                /\ failure.at = "first"

\* The first block of such a response was a tool call: the query ended with
\* the error string.
C29_Witness ==
    /\ ToolUseWithoutRegistry
    /\ pc = "Terminal"
    /\ Len(response.content) = 2
    /\ response.content[1].type = "tool_use"
    /\ result.parts[1] = "Error: An unexpected error occurred - "

\* A Variant B query has just been classified: its search is pending, or its
\* model call was issued without a search.
JustClassified ==
    \/ pc = "SearchPending"
    \/ pc = "AwaitingFirstResponse" /\ dispatches = << >>

\* The two providers classify the query alike and extract the same
\* parameters from it.
SameOnQuery(q, worthy) ==
    /\ Ollama_should_search_courses(q) = worthy
    /\ LocalAI_should_search_courses(q) = worthy
    /\ Ollama_extract_search_parameters(q) = LocalAI_extract_search_parameters(q)

\* C30: OllamaProvider and LocalAIProvider classify every query alike and
\* extract the same parameters from it; whichever of them runs, the tool
\* call and the messages are the same function of the query, the history and
\* the search's outcome, and the answer is the backend's; only the
\* connection-error string is the provider's own.
C30_Interchangeable ==
    (VariantB(provider) /\ pc # "Idle") =>
        /\ JustClassified => SameOnQuery(query, should_search)
        /\ pc = "SearchPending" =>
               dispatches[1] = execute_tool("search_course_content",
                                            Ollama_extract_search_parameters(query))
        /\ Len(api_calls) = 1 =>
               api_calls[1].messages =
                   MessagesFrom(query, conversation_history,
                                IF dispatches = << >> THEN << >>
                                ELSE ContextFrom(dispatches[1].returned))
        /\ (pc = "Terminal" /\ failure.at = "none") => result \in ModelAnswers
        /\ (pc = "Terminal" /\ failure.at # "none") =>
               /\ result.parts[1] =
                      (IF provider = "LocalAIProvider"
                       THEN "Error: Failed to connect to LocalAI - "
                       ELSE "Error: Failed to connect to Ollama - ")
               /\ Ollama_except(failure.exc) # LocalAI_except(failure.exc)

\* The LocalAI provider dispatched a search with a lesson number extracted
\* from the query.
C30_Witness ==
    /\ provider = "LocalAIProvider"
    /\ pc = "SearchPending"
    /\ "lesson_number" \in DOMAIN dispatches[1].input
    /\ "course_name" \in DOMAIN dispatches[1].input

\* The k most recent turns of a log, in the order they were appended.
MostRecent(log, k) ==
    IF Len(log) <= k THEN log ELSE SubSeq(log, Len(log) - k + 1, Len(log))

HandedOut == {s \in DOMAIN sessions : sessions[s].made > 0}

\* C23: create_session never hands out an id twice: the ids handed out are
\* as many as the calls made, none of them is an id it handed out before, and
\* the queries begun without a session id run under distinct sessions.
C23_FreshIds ==
    /\ \A s \in DOMAIN sessions : sessions[s].made <= 1
    /\ Cardinality(HandedOut) = session_counter
    /\ (last_run.op = "begin" /\ last_run.created) =>
           /\ last_run.session \in HandedOut
           /\ \A c \in Clients \ {last_run.by} :
                  turns[c].pc # "Idle" => turns[c].session # last_run.session

\* Two queries without a session id are under way, the second just begun.
C23_Witness ==
    /\ session_counter = 2
    /\ last_run.op = "begin"
    /\ last_run.created
    /\ \A c \in Clients : turns[c].pc # "Idle" /\ turns[c].session \in HandedOut

\* The histories the buffer keeps hold turns of their own session only.
OwnTurnsOnly ==
    \A s \in DOMAIN sessions :
        \A i \in 1..Len(sessions[s].history) : sessions[s].history[i].session = s

\* The history composed for the query of caller c is the transcript of a
\* stretch of the turns appended to its own session.
RenderedFromOwn(c) ==
    \/ turns[c].history = None
    \/ \E i, j \in 1..Len(SessionOf(sessions, turns[c].session).log) :
           turns[c].history =
               PyStr(Transcript(SubSeq(sessions[turns[c].session].log, i, j)))

\* C24: a step changes the turns of a session only when it appends to that
\* very session, whatever queries on other sessions are under way; a
\* session's history holds turns of that session only, and so does the
\* history composed for a query.
C24_Isolated ==
    /\ [](OwnTurnsOnly /\ \A c \in Clients : turns[c].pc # "Idle" => RenderedFromOwn(c))
    /\ [][\A s \in DOMAIN sessions :
              sessions'[s] # sessions[s] =>
                  /\ last_run'.op \in {"append", "return"}
                  /\ last_run'.session = s]_vars

\* Two queries on different sessions are under way, one has just appended
\* its question, and the other session has a history already.
C24_Witness ==
    /\ last_run.op = "append"
    /\ \A c \in Clients : turns[c].pc # "Idle"
    /\ turns[1].session # turns[2].session
    /\ \A c \in Clients :
           /\ turns[c].session \in DOMAIN sessions
           /\ sessions[turns[c].session].history # << >>
    /\ \E c \in Clients : turns[c].history # None

\* The history handed to the orchestrator for the query of caller c holds
\* the most recent of the turns its session had when the query began, and so
\* none of the query's own.
HandedEarlierTurns(c) ==
    turns[c].history =
        (IF turns[c].seen = 0
         THEN None
         ELSE PyStr(Transcript(MostRecent(
                  SubSeq(sessions[turns[c].session].log, 1, turns[c].seen),
                  2 * MAX_HISTORY))))

\* The history of the session the returned query ran under ends with the
\* query's question and its answer.
EndsWithExchange ==
    LET h == SessionOf(sessions, last_run.session).history
    IN  /\ Len(h) >= 2
        /\ h[Len(h) - 1].role = "user"
        /\ h[Len(h) - 1].text = last_run.question
        /\ h[Len(h) - 1].by = last_run.by
        /\ h[Len(h) - 1].n > last_run.seen
        /\ h[Len(h)].role = "assistant"
        /\ h[Len(h)].text = last_run.answer
        /\ h[Len(h)].by = last_run.by

\* C25 as the specification states it: of every query on a session, with or
\* without another query on the same session under way.
C25_AsStated ==
    /\ \A c \in Clients : turns[c].pc # "Idle" => HandedEarlierTurns(c)
    /\ last_run.op = "return" => EndsWithExchange

\* C25: the history handed to the orchestrator holds only turns the session
\* had before the query began; and when a query returns that no other query
\* on the same session overlapped, the session's history ends with the
\* query's question and its answer.
C25_Ordering ==
    /\ \A c \in Clients : turns[c].pc # "Idle" => HandedEarlierTurns(c)
    /\ (last_run.op = "return" /\ last_run.alone) => EndsWithExchange

\* The second query of a session has returned: it was handed the first
\* exchange, and the history ends with the second.
C25_Witness ==
    /\ last_run.op = "return"
    /\ last_run.alone
    /\ last_run.seen = 2
    /\ last_run.history # None
    /\ Len(sessions[last_run.session].history) = 4
    /\ EndsWithExchange


====
